---- MODULE Spec2Model ----
(***************************************************************************)
(* Two-pass streaming / refining transcription pipeline of                 *)
(* lecture_transcriber.                                                    *)
(*                                                                         *)
(*   SpecSegmenter  the sentence buffer of engine.py fed with fast-pass    *)
(*                  texts (engine.py lines 186-198 and 209-225).           *)
(*   SpecEngine     engine.py (capture, streaming and refining threads,    *)
(*                  stop / _save_session) with the GUI of                  *)
(*                  gui_transcriber.py that consumes its callbacks.        *)
(*   SpecMain       main.py (Transcriber and TranscriptionUI: history,     *)
(*                  refine-by-index, save_session / load_session).         *)
(*                                                                         *)
(* Text is a sequence of one-character strings, so that strip(), find()    *)
(* and slicing are computed as Python computes them.                       *)
(***************************************************************************)
EXTENDS Naturals, Sequences, FiniteSets, TLC

VARIABLES
    \* engine.py, TranscriptionEngine
    is_running,           \* self.is_running
    streaming_pipeline,   \* self.streaming_pipeline is loaded (not None)
    refining_pipeline,    \* self.refining_pipeline is loaded (not None)
    audio_queue,          \* self.audio_queue
    refine_queue,         \* self.refine_queue
    sentence_buffer,      \* self.sentence_buffer
    chunk_id,             \* chunk_id, local of _streaming_thread
    session_transcripts,  \* self.session_transcripts
    session_file,         \* the records written to self.session_file
    lifecycle,            \* "idle", "running" (start called), "stopped" (stop called)
    pc_init,              \* position of the _initialize_models thread
    pc_audio,             \* position of the _audio_input_thread
    st_stream,            \* position of the _streaming_thread and the chunk it holds
    st_refine,            \* position of the _refining_thread and the job it holds
    captured,             \* number of chunks cut by the capture thread
    \* gui_transcriber.py, TranscriptionApp
    transcription_queue,  \* self.transcription_queue: transcript events not yet shown
    transcripts,          \* self.transcripts: id -> last event shown for the id
    history_text,         \* self.history_text: the refined texts inserted
    \* the environment
    audio_source,         \* "microphone", or "scenario": the three chunks of E2EAudio
    \* histories
    events,               \* every transcript callback made, in order
    fast_log,             \* one record per chunk the streaming thread finished
    refine_log,           \* one record per job the refining thread finished
    jobs_put,             \* every job put on the refine queue, in order
    save_log,             \* one record for each of the last two _save_session calls
    seg_log,              \* one record per feed of the sentence buffer
    \* main.py, Transcriber and TranscriptionUI
    tr_is_running,        \* Transcriber.is_running
    tr_audio_queue,       \* Transcriber.audio_queue
    tr_refine_queue,      \* Transcriber.refine_queue
    ui_history,           \* TranscriptionUI.history
    history_index,        \* history_index, local of streaming_processor
    tr_audio,             \* position of the audio_processor thread
    tr_stream,            \* position of the streaming_processor thread and its chunk
    tr_refine,            \* position of the refining_processor thread and its job
    main_pc,              \* position of main_ui
    args_resume,          \* args.resume
    session_path,         \* the file sessions/<session_name>.session
    tr_captured,          \* number of chunks read from the input, over all runs
    run_no,               \* number of the process run
    \* histories of main.py
    entry_pos,            \* id -> index in history where the fast pass appended it
    update_log,           \* one record per update_history_line call
    saved_history,        \* the history written by the last save_session
    load_log,             \* what load_session read: the snapshot on file, the lines appended
    \* engine_lightweight.py, LightweightTranscriptionEngine
    lw_is_running,        \* self.is_running
    lw_pipeline,          \* self.pipeline is loaded
    lw_audio_queue,       \* self.audio_queue, queue.Queue(maxsize=3)
    lw_session_transcripts, \* self.session_transcripts
    lw_audio_buffer,      \* self.audio_buffer, the number of reads it holds
    lw_chunk_id,          \* chunk_id, local of each _transcription_thread
    lw_lifecycle,         \* "idle", "running", "stopped"
    lw_init,              \* position of each _initialize_model thread
    lw_audio,             \* position of each _audio_input_thread
    lw_trans,             \* position of each _transcription_thread and its chunk
    lw_captured,          \* number of chunks cut by the _audio_input_threads
    \* histories of engine_lightweight.py
    lw_skipped,           \* chunks not put because the queue was full, with the queue then
    lw_popped,            \* chunks the _transcription_thread got, in order
    lw_cleared,           \* chunks _cleanup_memory removed from the queue
    lw_buffer_writers,    \* the threads that have assigned self.audio_buffer
    \* a function of the program applied to given arguments
    fn_call,              \* the function, its arguments and, once returned, its result
    \* main.py, TranscriptionUI, statement by statement
    ui_inside,            \* thread -> the method of the UI it is inside, and its locals
    history_pad           \* self.history_pad, the lines drawn, by row

engine_vars ==
    <<is_running, streaming_pipeline, refining_pipeline, audio_queue, refine_queue,
      chunk_id, session_transcripts, session_file, lifecycle, pc_init, pc_audio,
      st_stream, st_refine, captured, transcription_queue, transcripts,
      history_text, events, fast_log, refine_log, jobs_put, save_log,
      audio_source>>

seg_vars == <<sentence_buffer, seg_log>>

main_vars ==
    <<tr_is_running, tr_audio_queue, tr_refine_queue, ui_history, history_index,
      tr_audio, tr_stream, tr_refine, main_pc, args_resume, session_path,
      tr_captured, run_no, entry_pos, update_log, saved_history, load_log>>

light_vars ==
    <<lw_is_running, lw_pipeline, lw_audio_queue, lw_session_transcripts,
      lw_audio_buffer, lw_chunk_id, lw_lifecycle, lw_init, lw_audio, lw_trans,
      lw_captured, lw_skipped, lw_popped, lw_cleared, lw_buffer_writers>>

ui_vars == <<ui_inside, history_pad>>

VARIABLES
    \* transcription_engine.py, TranscriptionEngine
    te_is_running,           \* self.is_running
    te_streaming_pipeline,   \* self.streaming_pipeline: "unset" (no such attribute) or "loaded"
    te_refining_pipeline,    \* self.refining_pipeline: "unset" (no such attribute) or "loaded"
    te_audio_queue,          \* self.audio_queue
    te_refine_queue,         \* self.refine_queue
    te_init,                 \* position of the _initialize_models thread
    te_audio,                \* position of the _audio_input_thread thread
    te_stream,               \* position and locals of the _streaming_thread thread
    te_refine,               \* position and locals of the _refining_thread thread
    te_captured,             \* number of chunks the microphone has delivered
    te_log                   \* the update_callback("transcript", ...) calls made

te_vars ==
    <<te_is_running, te_streaming_pipeline, te_refining_pipeline,
      te_audio_queue, te_refine_queue, te_init, te_audio, te_stream,
      te_refine, te_captured, te_log>>


vars ==
    <<engine_vars, seg_vars, main_vars, light_vars, fn_call, ui_vars, te_vars>>

(***************************************************************************)
(* Bounds of the model.                                                    *)
(***************************************************************************)
MaxFeeds == 3

MaxChunks == 2

MaxMainChunks == 3

MaxRuns == 2

MaxClock == 2

MaxLightChunks == 5
MaxStarts == 2
ReadsPerChunk == 2

MaxLines == 2

(***************************************************************************)
(* Fast-pass texts used as inputs.                                         *)
(***************************************************************************)
TxtEmpty == <<>>
TxtChunkOne == <<"T", "h", "i", "s", " ", "i", "s", " ", "c", "h", "u", "n", "k", " ", "o", "n", "e", ".", " ">>
TxtChunkTwo == <<"C", "h", "u", "n", "k", " ", "t", "w", "o", " ", "c", "o", "n", "t", "i", "n", "u", "e", "s", ".", " ">>
TxtChunkThree == <<"C", "h", "u", "n", "k", " ", "t", "h", "r", "e", "e", " ", "e", "n", "d", "s", ".">>
TxtHelloWorld == <<"H", "e", "l", "l", "o", " ", "w", "o", "r", "l", "d", ".">>
TxtThisIsFine == <<" ", "T", "h", "i", "s", " ", "i", "s", " ", "f", "i", "n", "e">>
TxtToo == <<" ", "t", "o", "o", ".">>
TxtOk == <<"O", "k", ".">>
TxtHi == <<"H", "i">>
TxtDot == <<".">>
TxtTwoMarks == <<"I", "s", " ", "t", "h", "a", "t", " ", "r", "i", "g", "h", "t", "?", " ", "Y", "e", "s", " ", "i", "t", " ", "i", "s", " ", "s", "o", ".">>
TxtThreeShort == <<"W", "o", "w", "!", " ", "R", "e", "a", "l", "l", "y", "?", " ", "Y", "e", "s", ".">>
TxtMixed == <<"N", "o", " ", "w", "a", "y", "!", " ", "I", "t", " ", "i", "s", " ", "f", "i", "n", "e", " ", "r", "e", "a", "l", "l", "y", ".", " ", "O", "r", " ", "i", "s", " ", "i", "t", "?", " ", "m", "a", "y", "b", "e">>
TxtThisIsFineToo == <<"T", "h", "i", "s", " ", "i", "s", " ", "f", "i", "n", "e", " ", "t", "o", "o", ".">>

SegTexts ==
    { TxtEmpty, TxtHelloWorld, TxtThisIsFine, TxtToo, TxtOk, TxtHi, TxtDot,
      TxtTwoMarks, TxtThreeShort, TxtMixed, TxtChunkOne }

(***************************************************************************)
(* Python string primitives.                                               *)
(***************************************************************************)
IsSpace(c) == c \in {" ", "\n"}

IsMark(c) == c \in {".", "!", "?"}

RECURSIVE lstrip(_)
lstrip(s) == IF s # <<>> /\ IsSpace(Head(s)) THEN lstrip(Tail(s)) ELSE s

RECURSIVE rstrip(_)
rstrip(s) ==
    IF s # <<>> /\ IsSpace(s[Len(s)]) THEN rstrip(SubSeq(s, 1, Len(s) - 1)) ELSE s

\* str.strip()
strip(s) == rstrip(lstrip(s))

\* c in s
contains(s, c) == \E i \in 1..Len(s) : s[i] = c

\* s.find(c), as a 1-based position (0 where Python returns -1)
find(s, c) ==
    IF contains(s, c)
    THEN CHOOSE i \in 1..Len(s) : s[i] = c /\ \A j \in 1..(i - 1) : s[j] # c
    ELSE 0

(***************************************************************************)
(* Vocabulary of the properties of the sentence buffer.                    *)
(***************************************************************************)
has_mark(s) == \E i \in 1..Len(s) : IsMark(s[i])

num_marks(s) == Cardinality({i \in 1..Len(s) : IsMark(s[i])})

last_mark(s) == CHOOSE i \in 1..Len(s) : IsMark(s[i]) /\ \A j \in (i + 1)..Len(s) : ~IsMark(s[j])

is_prefix(p, s) == Len(p) <= Len(s) /\ SubSeq(s, 1, Len(p)) = p

RECURSIVE concat(_)
concat(ss) == IF ss = <<>> THEN <<>> ELSE Head(ss) \o concat(Tail(ss))

RECURSIVE no_space(_)
no_space(s) ==
    IF s = <<>> THEN <<>>
    ELSE IF IsSpace(Head(s)) THEN no_space(Tail(s))
    ELSE <<Head(s)>> \o no_space(Tail(s))

\* two stripped texts joined by one space
spaced(a, b) == IF a = <<>> THEN b ELSE IF b = <<>> THEN a ELSE a \o <<" ">> \o b

(***************************************************************************)
(* engine.py, _extract_complete_sentences.                                 *)
(***************************************************************************)
MinSentenceLen == 10

MinTranscriptLen == 2

sentence_endings == <<".", "!", "?">>

\* mutant of is_substantial: the threshold of the transcript guard is used
is_substantial_short(sentence) == Len(sentence) > MinTranscriptLen

\* line 221: only keep substantial sentences
is_substantial(sentence) == Len(sentence) > MinSentenceLen

\* lines 217-223: the while loop for one ending.  st.cuts is every candidate
\* cut, st.sentences the candidates kept, st.buffer the sentence buffer.
RECURSIVE cut_all(_, _)
cut_all(st, ending) ==
    IF ~contains(st.buffer, ending) THEN st
    ELSE LET end_pos  == find(st.buffer, ending)
             sentence == strip(SubSeq(st.buffer, 1, end_pos))
             rest     == strip(SubSeq(st.buffer, end_pos + 1, Len(st.buffer)))
         IN  cut_all([cuts      |-> Append(st.cuts, sentence),
                      sentences |-> IF is_substantial(sentence)
                                    THEN Append(st.sentences, sentence)
                                    ELSE st.sentences,
                      buffer    |-> rest], ending)

\* lines 209-225: for ending in sentence_endings: while ending in buffer ...
\* mutant of extract_complete_sentences: only '.' ends a sentence
extract_period_sentences(buffer) ==
    cut_all([cuts |-> <<>>, sentences |-> <<>>, buffer |-> buffer],
            sentence_endings[1])

extract_complete_sentences(buffer) ==
    cut_all(cut_all(cut_all([cuts |-> <<>>, sentences |-> <<>>, buffer |-> buffer],
                            sentence_endings[1]),
                    sentence_endings[2]),
            sentence_endings[3])

\* line 188: if transcript and len(transcript) > 2
accepts(transcript) == transcript # <<>> /\ Len(transcript) > MinTranscriptLen

\* mutant of join_buffer: the transcript is added without the joining space
join_buffer_nospace(buffer, transcript) == strip(buffer \o transcript)

\* lines 190-191: the sentence buffer with the transcript added
join_buffer(buffer, transcript) == strip(buffer \o <<" ">> \o transcript)

\* lines 186-194 of _streaming_thread: what one fast-pass text does to the
\* sentence buffer.  raw is result["text"].
feed(buffer, raw) ==
    LET transcript == strip(raw)
    IN  IF accepts(transcript)
        THEN LET r == extract_complete_sentences(join_buffer(buffer, transcript))
             IN  [accepted |-> TRUE, cuts |-> r.cuts, sentences |-> r.sentences,
                  buffer |-> r.buffer]
        ELSE [accepted |-> FALSE, cuts |-> <<>>, sentences |-> <<>>,
              buffer |-> buffer]

(***************************************************************************)
(* The external collaborators: what the audio source, the fast engine and  *)
(* the refining engine return.  A chunk is [n, a]: the n-th chunk cut,     *)
(* holding the audio a.                                                    *)
(***************************************************************************)
\* what the microphone may deliver for a chunk
MicAudio == {"one", "partial", "silence"}

\* the synthetic source of the end-to-end scenario
E2EAudio == <<"one", "two", "three">>

\* the audio the source may deliver for the n-th chunk
SourceAudio(n) ==
    IF audio_source = "scenario"
    THEN IF n <= Len(E2EAudio) THEN {E2EAudio[n]} ELSE {}
    ELSE IF n <= MaxChunks THEN MicAudio ELSE {}

\* result["text"] of the streaming pipeline for the audio a
FastText(a) ==
    CASE a = "one"     -> TxtChunkOne
      [] a = "two"     -> TxtChunkTwo
      [] a = "three"   -> TxtChunkThree
      [] a = "partial" -> TxtThisIsFine
      [] OTHER         -> TxtEmpty

lower_case == <<"a", "b", "c", "d", "e", "f", "g", "h", "i", "j", "k", "l", "m", "n", "o", "p", "q", "r", "s", "t", "u", "v", "w", "x", "y", "z">>

upper_case == <<"A", "B", "C", "D", "E", "F", "G", "H", "I", "J", "K", "L", "M", "N", "O", "P", "Q", "R", "S", "T", "U", "V", "W", "X", "Y", "Z">>

upper_char(c) ==
    IF \E i \in 1..Len(lower_case) : lower_case[i] = c
    THEN upper_case[CHOOSE i \in 1..Len(lower_case) : lower_case[i] = c]
    ELSE c

upper(s) == [i \in 1..Len(s) |-> upper_char(s[i])]

\* result["text"] of the refining pipeline for the audio a
RefineText(a) == upper(FastText(a))

NoChunk == [n |-> 0, a |-> "none"]

NoJob == [id |-> 0, audio |-> NoChunk]

NoCall == [op |-> "none"]

\* LightweightTranscriptionEngine.__init__
LightConstructed ==
    /\ lw_is_running = FALSE
    /\ lw_pipeline = FALSE
    /\ lw_audio_queue = <<>>
    /\ lw_session_transcripts = <<>>
    /\ lw_audio_buffer = 0
    /\ lw_chunk_id = <<>>
    /\ lw_lifecycle = "idle"
    /\ lw_init = <<>>
    /\ lw_audio = <<>>
    /\ lw_trans = <<>>
    /\ lw_captured = 0
    /\ lw_skipped = <<>>
    /\ lw_popped = <<>>
    /\ lw_cleared = <<>>
    /\ lw_buffer_writers = {}

NotLoaded == [resumed |-> FALSE, snapshot |-> <<>>, lines |-> <<>>]

NoMainJob == [index |-> 0, chunk |-> NoChunk, transcript |-> <<>>, none |-> FALSE]

\* a new process: TranscriptionUI.__init__ and Transcriber.__init__
ProcessStarted ==
    /\ tr_is_running = FALSE
    /\ tr_audio_queue = <<>>
    /\ tr_refine_queue = <<>>
    /\ ui_history = <<>>
    /\ history_index = 0
    /\ tr_audio = "off"
    /\ tr_stream = [pc |-> "off", chunk |-> NoChunk]
    /\ tr_refine = [pc |-> "off", job |-> NoMainJob]
    /\ main_pc = "init"
    /\ entry_pos = <<>>
    /\ update_log = <<>>
    /\ load_log = NotLoaded

\* the threads of main.py that call the UI: main_ui, streaming_processor
\* and refining_processor
HistoryThreads == {"main", "streaming", "refining"}

\* a thread that is in no method of the UI
Outside == [op |-> "none", row |-> 0, line |-> <<>>]

\* TranscriptionUI.__init__, lines 287 and 303
UiConstructed ==
    /\ ui_inside = [t \in HistoryThreads |-> Outside]
    /\ history_pad = <<>>

\* transcription_engine.py, TranscriptionEngine.__init__, lines 25-47: the
\* queues are empty, is_running is False, and neither pipeline attribute is
\* assigned
TeConstructed ==
    /\ te_is_running = FALSE
    /\ te_streaming_pipeline = "unset"
    /\ te_refining_pipeline = "unset"
    /\ te_audio_queue = <<>>
    /\ te_refine_queue = <<>>
    /\ te_init = "off"
    /\ te_audio = "off"
    /\ te_stream = [pc |-> "off", chunk |-> 0, chunk_id |-> 0, error |-> "none"]
    /\ te_refine = [pc |-> "off", job |-> 0, error |-> "none"]
    /\ te_captured = 0
    /\ te_log = <<>>

MainConstructed ==
    /\ ProcessStarted
    /\ args_resume = FALSE
    /\ session_path = [exists |-> FALSE, content |-> <<>>]
    /\ tr_captured = 0
    /\ run_no = 1
    /\ saved_history = <<>>

(***************************************************************************)
(* engine.py: TranscriptionEngine, with the GUI of gui_transcriber.py.     *)
(***************************************************************************)
\* TranscriptionEngine.__init__ and TranscriptionApp.__init__
EngineConstructed ==
    /\ is_running = FALSE
    /\ streaming_pipeline = FALSE
    /\ refining_pipeline = FALSE
    /\ audio_queue = <<>>
    /\ refine_queue = <<>>
    /\ chunk_id = 0
    /\ session_transcripts = <<>>
    /\ session_file = [written |-> FALSE, stamp |-> 0, records |-> <<>>]
    /\ save_log = <<>>
    /\ lifecycle = "idle"
    /\ pc_init = "off"
    /\ pc_audio = "off"
    /\ st_stream = [pc |-> "off", chunk |-> NoChunk]
    /\ st_refine = [pc |-> "off", job |-> NoJob]
    /\ captured = 0
    /\ transcription_queue = <<>>
    /\ transcripts = <<>>
    /\ history_text = <<>>
    /\ events = <<>>
    /\ fast_log = <<>>
    /\ refine_log = <<>>
    /\ jobs_put = <<>>

EngInit ==
    /\ EngineConstructed
    /\ MainConstructed
    /\ LightConstructed
    /\ fn_call = NoCall
    /\ UiConstructed
    /\ TeConstructed
    /\ audio_source = "microphone"
    /\ sentence_buffer = <<>>
    /\ seg_log = <<>>

E2EInit ==
    /\ EngineConstructed
    /\ MainConstructed
    /\ LightConstructed
    /\ fn_call = NoCall
    /\ UiConstructed
    /\ TeConstructed
    /\ audio_source = "scenario"
    /\ sentence_buffer = <<>>
    /\ seg_log = <<>>

\* start(): the flag is set and the four threads are started
start ==
    /\ lifecycle = "idle"
    /\ lifecycle' = "running"
    /\ is_running' = TRUE
    /\ pc_init' = "streaming"
    /\ pc_audio' = "open"
    /\ st_stream' = [pc |-> "loop", chunk |-> NoChunk]
    /\ st_refine' = [pc |-> "loop", job |-> NoJob]
    /\ UNCHANGED <<streaming_pipeline, refining_pipeline, audio_queue, refine_queue,
                   chunk_id, session_transcripts, session_file, captured,
                   transcription_queue, transcripts, history_text, events,
                   fast_log, refine_log, jobs_put, audio_source, save_log, seg_vars, main_vars, light_vars, fn_call, ui_vars, te_vars>>

\* _initialize_models: the streaming pipeline, then the refining pipeline; an
\* exception of either constructor ends the thread
initialize_models ==
    /\ \/ /\ pc_init = "streaming"
          /\ \/ streaming_pipeline' = TRUE /\ pc_init' = "refining"
             \/ streaming_pipeline' = FALSE /\ pc_init' = "done"
          /\ UNCHANGED refining_pipeline
       \/ /\ pc_init = "refining"
          /\ refining_pipeline' \in BOOLEAN
          /\ pc_init' = "done"
          /\ UNCHANGED streaming_pipeline
    /\ UNCHANGED <<is_running, audio_queue, refine_queue, chunk_id,
                   session_transcripts, session_file, lifecycle, pc_audio,
                   st_stream, st_refine, captured, transcription_queue,
                   transcripts, history_text, events, fast_log, refine_log,
                   jobs_put, audio_source, save_log, seg_vars, main_vars, light_vars, fn_call, ui_vars, te_vars>>

\* _audio_input_thread: open the microphone (an exception ends the thread),
\* then, while is_running, read until a chunk is cut and put it on the queue
audio_input_thread ==
    /\ \/ /\ pc_audio = "open"
          /\ pc_audio' \in {"loop", "done"}
          /\ UNCHANGED <<audio_queue, captured>>
       \/ /\ pc_audio = "loop"
          /\ pc_audio' = IF is_running THEN "read" ELSE "done"
          /\ UNCHANGED <<audio_queue, captured>>
       \/ /\ pc_audio = "read"
          /\ \E a \in SourceAudio(captured + 1) :
                audio_queue' = Append(audio_queue, [n |-> captured + 1, a |-> a])
          /\ captured' = captured + 1
          /\ pc_audio' = "loop"
       \/ \* lines 157-160: the read raises; the error is printed and, after a
          \* sleep, the loop goes on, however many reads have failed
          /\ pc_audio = "read"
          /\ pc_audio' = "loop"
          /\ UNCHANGED <<audio_queue, captured>>
    /\ UNCHANGED <<is_running, streaming_pipeline, refining_pipeline, refine_queue,
                   chunk_id, session_transcripts, session_file, lifecycle, pc_init,
                   st_stream, st_refine, transcription_queue, transcripts,
                   history_text, events, fast_log, refine_log, jobs_put,
                   audio_source, save_log, seg_vars, main_vars, light_vars, fn_call, ui_vars, te_vars>>

\* mutant of queue_get: the item put last is taken
queue_get_newest(q) ==
    [item |-> q[Len(q)], rest |-> SubSeq(q, 1, Len(q) - 1)]

\* lines 44-45, 182 and 234: queue.Queue.get takes the item put first
queue_get(q) == [item |-> Head(q), rest |-> Tail(q)]

\* lines 195-198: one Streaming callback per sentence, ids counted from first_id
streaming_events(sentences, first_id) ==
    LET kept == SelectSeq(sentences, LAMBDA x : strip(x) # <<>>)
    IN  [k \in 1..Len(kept) |->
            [id |-> first_id + k - 1, text |-> kept[k], status |-> "Streaming"]]

\* mutant of should_refine: a job only for a chunk that completed a sentence
should_refine_on_sentence(transcript, sentences) ==
    accepts(transcript) /\ sentences # <<>>

\* lines 188-201: the put on the refine queue is inside the transcript guard
\* and outside the loop over the sentences
should_refine(transcript, sentences) == accepts(transcript)

\* line 201: the job carries chunk_id as it is after the loop over the sentences
refine_job(next_id, chunk) == [id |-> next_id, audio |-> chunk]

\* _streaming_thread
streaming_thread ==
    /\ \/ \* line 177: while self.is_running; line 178: pipeline not loaded, sleep
          /\ st_stream.pc = "loop"
          /\ \/ ~is_running /\ st_stream' = [st_stream EXCEPT !.pc = "done"]
             \/ is_running /\ streaming_pipeline
                /\ st_stream' = [st_stream EXCEPT !.pc = "get"]
          /\ UNCHANGED <<audio_queue, refine_queue, sentence_buffer, chunk_id,
                         transcription_queue, events, fast_log, jobs_put>>
       \/ \* line 182: get(timeout=1); queue.Empty: continue
          /\ st_stream.pc = "get"
          /\ IF audio_queue # <<>>
             THEN /\ st_stream' = [pc |-> "asr", chunk |-> queue_get(audio_queue).item]
                  /\ audio_queue' = queue_get(audio_queue).rest
             ELSE /\ st_stream' = [st_stream EXCEPT !.pc = "loop"]
                  /\ UNCHANGED audio_queue
          /\ UNCHANGED <<refine_queue, sentence_buffer, chunk_id,
                         transcription_queue, events, fast_log, jobs_put>>
       \/ \* lines 183-207: the pipeline raises
          /\ st_stream.pc = "asr"
          /\ st_stream' = [pc |-> "loop", chunk |-> NoChunk]
          /\ fast_log' = Append(fast_log,
                [chunk |-> st_stream.chunk, ok |-> FALSE, transcript |-> <<>>,
                 sentences |-> <<>>, jobs |-> <<>>])
          /\ UNCHANGED <<audio_queue, refine_queue, sentence_buffer, chunk_id,
                         transcription_queue, events, jobs_put>>
       \/ \* lines 183-201: the pipeline returns
          /\ st_stream.pc = "asr"
          /\ LET chunk      == st_stream.chunk
                 transcript == strip(FastText(chunk.a))
                 r          == feed(sentence_buffer, FastText(chunk.a))
                 evs        == streaming_events(r.sentences, chunk_id)
                 next_id    == chunk_id + Len(evs)
                 jobs       == IF should_refine(transcript, r.sentences)
                               THEN <<refine_job(next_id, chunk)>> ELSE <<>>
             IN  /\ sentence_buffer' = r.buffer
                 /\ chunk_id' = next_id
                 /\ events' = events \o evs
                 /\ transcription_queue' = transcription_queue \o evs
                 /\ refine_queue' = refine_queue \o jobs
                 /\ jobs_put' = jobs_put \o jobs
                 /\ fast_log' = Append(fast_log,
                       [chunk |-> chunk, ok |-> TRUE, transcript |-> transcript,
                        sentences |-> r.sentences, jobs |-> jobs])
          /\ st_stream' = [pc |-> "loop", chunk |-> NoChunk]
          /\ UNCHANGED audio_queue
    /\ UNCHANGED <<is_running, streaming_pipeline, refining_pipeline,
                   session_transcripts, session_file, lifecycle, pc_init, pc_audio,
                   st_refine, captured, transcripts, history_text, refine_log,
                   audio_source, save_log, seg_log, main_vars, light_vars, fn_call, ui_vars, te_vars>>

\* lines 241-246: the record the refining thread appends and sends
refined_entry(job, transcript) ==
    [id |-> job.id, text |-> transcript, status |-> "Refined"]

\* _refining_thread
refining_thread ==
    /\ \/ \* line 229: while self.is_running; line 230: pipeline not loaded, sleep
          /\ st_refine.pc = "loop"
          /\ \/ ~is_running /\ st_refine' = [st_refine EXCEPT !.pc = "done"]
             \/ is_running /\ refining_pipeline
                /\ st_refine' = [st_refine EXCEPT !.pc = "get"]
          /\ UNCHANGED <<refine_queue, session_transcripts, transcription_queue,
                         events, refine_log>>
       \/ \* line 234: get(timeout=1); queue.Empty: continue
          /\ st_refine.pc = "get"
          /\ IF refine_queue # <<>>
             THEN /\ st_refine' = [pc |-> "asr", job |-> queue_get(refine_queue).item]
                  /\ refine_queue' = queue_get(refine_queue).rest
             ELSE /\ st_refine' = [st_refine EXCEPT !.pc = "loop"]
                  /\ UNCHANGED refine_queue
          /\ UNCHANGED <<session_transcripts, transcription_queue, events,
                         refine_log>>
       \/ \* lines 235-254: the pipeline raises
          /\ st_refine.pc = "asr"
          /\ st_refine' = [pc |-> "loop", job |-> NoJob]
          /\ refine_log' = Append(refine_log,
                [job |-> st_refine.job, ok |-> FALSE, updated |-> FALSE])
          /\ UNCHANGED <<refine_queue, session_transcripts, transcription_queue,
                         events>>
       \/ \* lines 235-249: the pipeline returns
          /\ st_refine.pc = "asr"
          /\ LET job        == st_refine.job
                 transcript == strip(RefineText(job.audio.a))
                 data       == refined_entry(job, transcript)
             IN  IF accepts(transcript)
                 THEN /\ session_transcripts' = Append(session_transcripts, data)
                      /\ events' = Append(events, data)
                      /\ transcription_queue' = Append(transcription_queue, data)
                      /\ refine_log' = Append(refine_log,
                            [job |-> job, ok |-> TRUE, updated |-> TRUE])
                 ELSE /\ refine_log' = Append(refine_log,
                            [job |-> job, ok |-> TRUE, updated |-> FALSE])
                      /\ UNCHANGED <<session_transcripts, events,
                                     transcription_queue>>
          /\ st_refine' = [pc |-> "loop", job |-> NoJob]
          /\ UNCHANGED refine_queue
    /\ UNCHANGED <<is_running, streaming_pipeline, refining_pipeline, audio_queue,
                   chunk_id, session_file, lifecycle, pc_init, pc_audio, st_stream,
                   captured, transcripts, history_text, fast_log, jobs_put,
                   audio_source, save_log, seg_vars, main_vars, light_vars, fn_call, ui_vars, te_vars>>

\* gui_transcriber.py, update_transcript_display: self.transcripts[id] = data
update_transcript_display(shown, data) ==
    [i \in DOMAIN shown \cup {data.id} |-> IF i = data.id THEN data ELSE shown[i]]

\* gui_transcriber.py, lines 105-110: a Refined text is inserted in the log
insert_history(log, data) ==
    IF data.status = "Refined" THEN Append(log, data.text) ELSE log

\* the while loop of process_queue over the events q, from the display d
RECURSIVE show_all(_, _)
show_all(d, q) ==
    IF q = <<>> THEN d
    ELSE show_all([transcripts  |-> update_transcript_display(d.transcripts, Head(q)),
                   history_text |-> insert_history(d.history_text, Head(q))],
                  Tail(q))

\* gui_transcriber.py, process_queue: every 100 ms the GUI thread shows the
\* events queued so far; the window exists until on_closing destroys it
process_queue ==
    /\ lifecycle = "running"
    /\ transcription_queue # <<>>
    /\ LET d == show_all([transcripts |-> transcripts, history_text |-> history_text],
                         transcription_queue)
       IN  /\ transcripts' = d.transcripts
           /\ history_text' = d.history_text
    /\ transcription_queue' = <<>>
    /\ UNCHANGED <<is_running, streaming_pipeline, refining_pipeline, audio_queue,
                   refine_queue, chunk_id, session_transcripts, session_file,
                   lifecycle, pc_init, pc_audio, st_stream, st_refine, captured,
                   events, fast_log, refine_log, jobs_put, audio_source, save_log, seg_vars, main_vars, light_vars, fn_call, ui_vars, te_vars>>

\* _save_session: the header line with datetime.now() (to the second), then
\* one "[status] text" record per entry of session_transcripts
save_session(entries, now) ==
    [written |-> TRUE,
     stamp   |-> now,
     records |-> [i \in 1..Len(entries) |->
                     [status |-> entries[i].status, text |-> entries[i].text]]]

\* the times of day a call made now may read: the first time read is
\* called 1, a later call reads that second or a later one
clock_now ==
    IF session_file.written THEN {t \in 1..MaxClock : t >= session_file.stamp}
    ELSE {1}

last_two(log) == IF Len(log) > 2 THEN Tail(log) ELSE log

\* stop(): the flag is cleared and the session saved; no thread is joined
stop_engine(now) ==
    /\ is_running' = FALSE
    /\ session_file' = save_session(session_transcripts, now)
    /\ save_log' = last_two(Append(save_log,
                          [entries |-> session_transcripts,
                           events  |-> events,
                           buffer  |-> sentence_buffer,
                           file    |-> save_session(session_transcripts, now)]))

\* stop() called by on_closing of the GUI
stop ==
    /\ lifecycle = "running"
    /\ lifecycle' = "stopped"
    /\ \E now \in clock_now : stop_engine(now)
    /\ UNCHANGED <<streaming_pipeline, refining_pipeline, audio_queue, refine_queue,
                   chunk_id, session_transcripts, pc_init, pc_audio, st_stream,
                   st_refine, captured, transcription_queue, transcripts,
                   history_text, events, fast_log, refine_log, jobs_put,
                   audio_source, seg_vars, main_vars, light_vars, fn_call, ui_vars, te_vars>>

\* _signal_handler: SIGINT or SIGTERM calls stop(), also after a stop()
signal_handler ==
    /\ lifecycle \in {"running", "stopped"}
    /\ lifecycle' = "stopped"
    /\ \E now \in clock_now : stop_engine(now)
    /\ UNCHANGED <<streaming_pipeline, refining_pipeline, audio_queue, refine_queue,
                   chunk_id, session_transcripts, pc_init, pc_audio, st_stream,
                   st_refine, captured, transcription_queue, transcripts,
                   history_text, events, fast_log, refine_log, jobs_put,
                   audio_source, seg_vars, main_vars, light_vars, fn_call, ui_vars, te_vars>>

EngNext ==
    \/ start
    \/ initialize_models
    \/ audio_input_thread
    \/ streaming_thread
    \/ refining_thread
    \/ process_queue
    \/ stop

SpecEngine == EngInit /\ [][EngNext]_vars

\* the engine under the GUI when SIGINT or SIGTERM may arrive
SignalNext ==
    \/ EngNext
    \/ signal_handler

SpecSignals == EngInit /\ [][SignalNext]_vars

SpecE2E == E2EInit /\ [][EngNext]_vars

(***************************************************************************)
(* main.py: Transcriber and TranscriptionUI.  A line of the history is the *)
(* text "[<timestamp>] [<status>] <text>"; the timestamp and the status    *)
(* are single tokens, they hold neither ']' nor white space.               *)
(***************************************************************************)
TxtTwoLines == <<"F", "i", "r", "s", "t", " ", "l", "i", "n", "e", ".", "\n", " ", "S", "e", "c", "o", "n", "d", " ", "l", "i", "n", "e", ".", "\n">>

TxtSystemInitialized == <<"S", "y", "s", "t", "e", "m", " ", "I", "n", "i", "t", "i", "a", "l", "i", "z", "e", "d", ".">>

TxtWhisperFailed == <<"W", "h", "i", "s", "p", "e", "r", " ", "f", "a", "i", "l", "e", "d", ":", " ">>

\* e.stderr of a failed whisper-cli run: a message line
TxtStderr == <<"e", "r", "r", "o", "r", "\n">>

TxtFinalSaved == <<"F", "i", "n", "a", "l", " ", "t", "r", "a", "n", "s", "c", "r", "i", "p", "t", " ", "s", "a", "v", "e", "d">>

TxtInterrupted == <<"I", "n", "t", "e", "r", "r", "u", "p", "t", "e", "d", " ", "b", "y", " ", "u", "s", "e", "r">>

TxtFinished == <<"T", "r", "a", "n", "s", "c", "r", "i", "p", "t", "i", "o", "n", " ", "f", "i", "n", "i", "s", "h", "e", "d", ".">>

\* what the input file holds, chunk after chunk
FileAudio == <<"one", "lines", "three">>

\* the n-th chunk read from the input
file_chunk(n) == [n |-> n, a |-> FileAudio[((n - 1) % Len(FileAudio)) + 1]]

\* the text file whisper-cli writes for the audio a
WhisperText(a) == IF a = "lines" THEN TxtTwoLines ELSE FastText(a)

\* time.strftime("%H:%M:%S")
timestamp_now == <<"hh:mm:ss">>

\* lines 319-320 and 329: f"[{timestamp}] [{status}] {text}"
format_line(timestamp, status, text) ==
    <<"[">> \o timestamp \o <<"]", " ", "[", status, "]", " ">> \o text

\* line 328: self.history[index].split(']')[0][1:]
line_timestamp(line) ==
    LET p     == find(line, "]")
        first == IF p = 0 THEN line ELSE SubSeq(line, 1, p - 1)
    IN  IF first = <<>> THEN <<>> ELSE Tail(first)

\* add_to_history
add_to_history(history, text, status) ==
    Append(history, format_line(timestamp_now, status, text))

\* update_history_line; index is the 0-based index of the code
update_history_line(history, index, new_text, new_status) ==
    IF 0 <= index /\ index < Len(history)
    THEN [history EXCEPT ![index + 1] =
             format_line(line_timestamp(history[index + 1]), new_status, new_text)]
    ELSE history

\* lines 83-85: what save_session writes
write_lines(history) ==
    concat([i \in 1..Len(history) |-> history[i] \o <<"\n">>])

\* line 92: for line in f
RECURSIVE read_lines(_)
read_lines(content) ==
    IF content = <<>> THEN <<>>
    ELSE LET p == find(content, "\n")
         IN  IF p = 0 THEN <<content>>
             ELSE <<SubSeq(content, 1, p)>>
                      \o read_lines(SubSeq(content, p + 1, Len(content)))

\* lines 91-93: the lines load_session appends to the history
load_lines(content) ==
    LET ls == read_lines(content) IN [i \in 1..Len(ls) |-> strip(ls[i])]

EndOfStream == [n |-> 0, a |-> "None"]

EndJob == [index |-> 0, chunk |-> NoChunk, transcript |-> <<>>, none |-> TRUE]

MainInit ==
    /\ MainConstructed
    /\ LightConstructed
    /\ fn_call = NoCall
    /\ UiConstructed
    /\ TeConstructed
    /\ EngineConstructed
    /\ audio_source = "microphone"
    /\ sentence_buffer = <<>>
    /\ seg_log = <<>>

\* main_ui, lines 362-368: the first line of the history, then start():
\* load_session when resuming, the flag, the three threads
main_ui_start ==
    /\ main_pc = "init"
    /\ LET h0     == add_to_history(ui_history, TxtSystemInitialized, "Streaming")
           loaded == IF args_resume /\ session_path.exists
                     THEN load_lines(session_path.content) ELSE <<>>
       IN  /\ ui_history' = h0 \o loaded
           /\ load_log' = [resumed |-> args_resume /\ session_path.exists,
                           snapshot |-> saved_history, lines |-> loaded]
    /\ tr_is_running' = TRUE
    /\ tr_audio' = "loop"
    /\ tr_stream' = [pc |-> "loop", chunk |-> NoChunk]
    /\ tr_refine' = [pc |-> "loop", job |-> NoMainJob]
    /\ main_pc' = "loop"
    /\ UNCHANGED <<tr_audio_queue, tr_refine_queue, history_index, args_resume,
                   session_path, tr_captured, run_no, entry_pos, update_log,
                   saved_history, engine_vars, seg_vars, light_vars, fn_call, ui_vars, te_vars>>

\* mutant of put_end_of_stream: the marker overtakes the chunks queued
put_end_of_stream_first(q) == <<EndOfStream>> \o q

\* line 162: self.audio_queue.put(None)
put_end_of_stream(q) == Append(q, EndOfStream)

\* audio_processor with _file_input: chunks are read while is_running and
\* the file lasts, then None is put.  The test of is_running and the read
\* that follows it are one step.
audio_processor ==
    /\ \/ /\ tr_audio = "loop"
          /\ ~tr_is_running
          /\ tr_audio' = "end"
          /\ UNCHANGED <<tr_audio_queue, tr_captured>>
       \/ /\ tr_audio = "loop"
          /\ tr_is_running
          /\ \/ /\ tr_captured < MaxMainChunks
                /\ tr_audio_queue' = Append(tr_audio_queue, file_chunk(tr_captured + 1))
                /\ tr_captured' = tr_captured + 1
                /\ tr_audio' = "loop"
             \/ /\ tr_audio' = "end"
                /\ UNCHANGED <<tr_audio_queue, tr_captured>>
       \/ /\ tr_audio = "end"
          /\ tr_audio_queue' = put_end_of_stream(tr_audio_queue)
          /\ tr_audio' = "done"
          /\ UNCHANGED tr_captured
    /\ UNCHANGED <<tr_is_running, tr_refine_queue, ui_history, history_index,
                   tr_stream, tr_refine, main_pc, args_resume, session_path,
                   run_no, entry_pos, update_log, saved_history, load_log,
                   engine_vars, seg_vars, light_vars, fn_call, ui_vars, te_vars>>

\* _run_whisper, lines 152-154: the line a failed whisper-cli run leaves
whisper_failed(history) ==
    add_to_history(history, TxtWhisperFailed \o TxtStderr, "ERROR")

\* line 243: the job put for an entry
main_job(index, chunk, transcript) ==
    [index |-> index, chunk |-> chunk, transcript |-> transcript, none |-> FALSE]

\* streaming_processor.  The test of is_running and the get that follows it
\* are one step; a get that times out leaves the state as it is.
streaming_processor ==
    /\ \/ \* line 230: while self.is_running
          /\ tr_stream.pc = "loop"
          /\ ~tr_is_running
          /\ tr_stream' = [tr_stream EXCEPT !.pc = "done"]
          /\ UNCHANGED <<tr_audio_queue, tr_refine_queue, ui_history,
                         history_index, entry_pos>>
       \/ \* lines 232-235: get(timeout=1); None is passed on
          /\ tr_stream.pc = "loop"
          /\ tr_is_running
          /\ tr_audio_queue # <<>>
          /\ tr_audio_queue' = Tail(tr_audio_queue)
          /\ IF Head(tr_audio_queue) = EndOfStream
             THEN /\ tr_refine_queue' = Append(tr_refine_queue, EndJob)
                  /\ tr_stream' = [pc |-> "done", chunk |-> NoChunk]
             ELSE /\ tr_stream' = [pc |-> "asr", chunk |-> Head(tr_audio_queue)]
                  /\ UNCHANGED tr_refine_queue
          /\ UNCHANGED <<ui_history, history_index, entry_pos>>
       \/ \* lines 238, 152-154: whisper-cli fails, the transcript is ""
          /\ tr_stream.pc = "asr"
          /\ ui_history' = whisper_failed(ui_history)
          /\ tr_stream' = [pc |-> "loop", chunk |-> NoChunk]
          /\ UNCHANGED <<tr_audio_queue, tr_refine_queue, history_index, entry_pos>>
       \/ \* lines 238, 210-225, 144: the call raises something else than
          \* CalledProcessError (sf.write or subprocess.run cannot run); only
          \* queue.Empty is caught at line 246 and the thread ends
          /\ tr_stream.pc = "asr"
          /\ tr_stream' = [tr_stream EXCEPT !.pc = "raised"]
          /\ UNCHANGED <<tr_audio_queue, tr_refine_queue, ui_history,
                         history_index, entry_pos>>
       \/ \* lines 238-244: whisper-cli returns
          /\ tr_stream.pc = "asr"
          /\ LET transcript == strip(WhisperText(tr_stream.chunk.a))
             IN  IF transcript # <<>>
                 THEN /\ ui_history' = add_to_history(ui_history, transcript, "Streaming")
                      /\ entry_pos' = [i \in DOMAIN entry_pos \cup {history_index} |->
                                          IF i = history_index THEN Len(ui_history)
                                          ELSE entry_pos[i]]
                      /\ tr_refine_queue' = Append(tr_refine_queue,
                            main_job(history_index, tr_stream.chunk, transcript))
                      /\ history_index' = history_index + 1
                 ELSE UNCHANGED <<ui_history, entry_pos, tr_refine_queue, history_index>>
          /\ tr_stream' = [pc |-> "loop", chunk |-> NoChunk]
          /\ UNCHANGED tr_audio_queue
    /\ UNCHANGED <<tr_is_running, tr_audio, tr_refine, main_pc, args_resume,
                   session_path, tr_captured, run_no, update_log, saved_history,
                   load_log, engine_vars, seg_vars, light_vars, fn_call, ui_vars, te_vars>>

\* line 265: the index of the history line a refine result is written to
refined_index(index) == index + 1

\* refining_processor.  The test of is_running and the get that follows it
\* are one step; a get that times out leaves the state as it is.
refining_processor ==
    /\ \/ \* line 251: while self.is_running
          /\ tr_refine.pc = "loop"
          /\ ~tr_is_running
          /\ tr_refine' = [tr_refine EXCEPT !.pc = "done"]
          /\ UNCHANGED <<tr_refine_queue, ui_history, update_log>>
       \/ \* lines 253-255: get(timeout=1); None ends the thread
          /\ tr_refine.pc = "loop"
          /\ tr_is_running
          /\ tr_refine_queue # <<>>
          /\ tr_refine_queue' = Tail(tr_refine_queue)
          /\ tr_refine' = IF Head(tr_refine_queue).none
                          THEN [pc |-> "done", job |-> NoMainJob]
                          ELSE [pc |-> "asr", job |-> Head(tr_refine_queue)]
          /\ UNCHANGED <<ui_history, update_log>>
       \/ \* lines 260-262, 152-154: whisper-cli fails, the transcript is ""
          /\ tr_refine.pc = "asr"
          /\ ui_history' = whisper_failed(ui_history)
          /\ tr_refine' = [pc |-> "loop", job |-> NoMainJob]
          /\ UNCHANGED <<tr_refine_queue, update_log>>
       \/ \* lines 260-262, 210-225, 144: the call raises something else than
          \* CalledProcessError; only queue.Empty is caught at line 267 and
          \* the thread ends
          /\ tr_refine.pc = "asr"
          /\ tr_refine' = [tr_refine EXCEPT !.pc = "raised"]
          /\ UNCHANGED <<tr_refine_queue, ui_history, update_log>>
       \/ \* lines 260-265: whisper-cli returns
          /\ tr_refine.pc = "asr"
          /\ LET job     == tr_refine.job
                 refined == strip(upper(WhisperText(job.chunk.a)))
                 index   == refined_index(job.index)
             IN  IF refined # <<>>
                 THEN /\ ui_history' = update_history_line(ui_history, index, refined, "Refined")
                      /\ update_log' = Append(update_log,
                            [id |-> job.index, index |-> index,
                             written |-> (0 <= index /\ index < Len(ui_history))])
                 ELSE UNCHANGED <<ui_history, update_log>>
          /\ tr_refine' = [pc |-> "loop", job |-> NoMainJob]
          /\ UNCHANGED tr_refine_queue
    /\ UNCHANGED <<tr_is_running, tr_audio_queue, history_index, tr_audio,
                   tr_stream, main_pc, args_resume, session_path, tr_captured,
                   run_no, entry_pos, saved_history, load_log, engine_vars,
                   seg_vars, light_vars, fn_call, ui_vars, te_vars>>

\* lines 83-85: the file after a write that raises: open(.., 'w') has
\* emptied it and the lines before the failing write are in it
failed_write(history, written) ==
    [exists |-> TRUE, content |-> write_lines(SubSeq(history, 1, written))]

\* main_ui, lines 372-378: one turn of the loop without 'q': save_session.
\* An exception of open or write is caught neither by save_session nor by
\* line 379: the loop is left for the finally clause, which calls stop()
main_ui_save ==
    /\ main_pc = "loop"
    /\ \/ /\ session_path' = [exists |-> TRUE, content |-> write_lines(ui_history)]
          /\ saved_history' = ui_history
          /\ UNCHANGED main_pc
       \/ \* line 83: open raises, the file is as it was
          /\ main_pc' = "stop"
          /\ UNCHANGED <<session_path, saved_history>>
       \/ \* line 85: a write raises
          /\ \E written \in 0..(Len(ui_history) - 1) :
                /\ session_path' = failed_write(ui_history, written)
                /\ saved_history' = SubSeq(ui_history, 1, written)
          /\ main_pc' = "stop"
    /\ UNCHANGED <<tr_is_running, tr_audio_queue, tr_refine_queue, ui_history,
                   history_index, tr_audio, tr_stream, tr_refine,
                   args_resume, tr_captured, run_no, entry_pos, update_log,
                   load_log, engine_vars, seg_vars, light_vars, fn_call, ui_vars, te_vars>>

\* main_ui, lines 373-375 and 379-380: 'q' or Ctrl-C leaves the loop; after
\* 'q' the flag is down, and line 116 of stop() changes nothing
main_ui_quit ==
    /\ main_pc = "loop"
    /\ \/ /\ tr_is_running' = FALSE
          /\ main_pc' = "join"
          /\ UNCHANGED ui_history
       \/ /\ ui_history' = add_to_history(ui_history, TxtInterrupted, "System")
          /\ main_pc' = "stop"
          /\ UNCHANGED tr_is_running
    /\ UNCHANGED <<tr_audio_queue, tr_refine_queue, history_index, tr_audio,
                   tr_stream, tr_refine, args_resume, session_path, tr_captured,
                   run_no, entry_pos, update_log, saved_history, load_log,
                   engine_vars, seg_vars, light_vars, fn_call, ui_vars, te_vars>>

\* Transcriber.stop, line 116
transcriber_stop ==
    /\ main_pc = "stop"
    /\ tr_is_running' = FALSE
    /\ main_pc' = "join"
    /\ UNCHANGED <<tr_audio_queue, tr_refine_queue, ui_history, history_index,
                   tr_audio, tr_stream, tr_refine, args_resume, session_path,
                   tr_captured, run_no, entry_pos, update_log, saved_history,
                   load_log, engine_vars, seg_vars, light_vars, fn_call, ui_vars, te_vars>>

\* Transcriber.stop, lines 118-121, and main_ui, line 383: the threads are
\* joined, the final transcript is saved, the last two lines are added
transcriber_finish ==
    /\ main_pc = "join"
    /\ tr_audio = "done"
    /\ tr_stream.pc \in {"done", "raised"}
    /\ tr_refine.pc \in {"done", "raised"}
    /\ ui_history' = add_to_history(add_to_history(ui_history, TxtFinalSaved, "System"),
                                    TxtFinished, "System")
    /\ main_pc' = "finished"
    /\ UNCHANGED <<tr_is_running, tr_audio_queue, tr_refine_queue, history_index,
                   tr_audio, tr_stream, tr_refine, args_resume, session_path,
                   tr_captured, run_no, entry_pos, update_log, saved_history,
                   load_log, engine_vars, seg_vars, light_vars, fn_call, ui_vars, te_vars>>

\* the program is run again with --resume and the same session name
run_again ==
    /\ main_pc = "finished"
    /\ run_no < MaxRuns
    /\ run_no' = run_no + 1
    /\ args_resume' = TRUE
    /\ tr_is_running' = FALSE
    /\ tr_audio_queue' = <<>>
    /\ tr_refine_queue' = <<>>
    /\ ui_history' = <<>>
    /\ history_index' = 0
    /\ tr_audio' = "off"
    /\ tr_stream' = [pc |-> "off", chunk |-> NoChunk]
    /\ tr_refine' = [pc |-> "off", job |-> NoMainJob]
    /\ main_pc' = "init"
    /\ entry_pos' = <<>>
    /\ update_log' = <<>>
    /\ load_log' = NotLoaded
    /\ UNCHANGED <<session_path, tr_captured, saved_history, engine_vars, seg_vars, light_vars, fn_call, ui_vars, te_vars>>

MainNext ==
    \/ main_ui_start
    \/ audio_processor
    \/ streaming_processor
    \/ refining_processor
    \/ main_ui_save
    \/ main_ui_quit
    \/ transcriber_stop
    \/ transcriber_finish
    \/ run_again

SpecMain == MainInit /\ [][MainNext]_vars

\* What the scheduling of the threads guarantees: a thread that can take a
\* step of its own code takes it.  The return of whisper-cli (line 144,
\* subprocess.run without a timeout) is the engine's step, not the thread's,
\* and the keys pressed are the user's: neither is guaranteed.
MainFairness ==
    /\ WF_vars(audio_processor)
    /\ WF_vars(streaming_processor /\ tr_stream.pc # "asr")
    /\ WF_vars(refining_processor /\ tr_refine.pc # "asr")
    /\ WF_vars(transcriber_stop)
    /\ WF_vars(transcriber_finish)

SpecMainFair == MainInit /\ [][MainNext]_vars /\ MainFairness

\* One run of the program, in which every call of whisper-cli returns or
\* raises: each thread that can take a step takes it.
MainOnceNext ==
    \/ main_ui_start
    \/ audio_processor
    \/ streaming_processor
    \/ refining_processor
    \/ main_ui_save
    \/ main_ui_quit
    \/ transcriber_stop
    \/ transcriber_finish

EngineCallsReturn ==
    /\ WF_vars(audio_processor)
    /\ WF_vars(streaming_processor)
    /\ WF_vars(refining_processor)

SpecMainOnce == MainInit /\ [][MainOnceNext]_vars /\ EngineCallsReturn

(***************************************************************************)
(* main.py: TranscriptionUI.add_to_history and update_history_line, one    *)
(* step per statement that touches self.history or self.history_pad, as    *)
(* the three threads of main.py call them.                                 *)
(***************************************************************************)
MaxHistory == 3

\* what each thread passes to add_to_history: main_ui at line 380,
\* streaming_processor at line 242, either worker at line 153
added_by(t) ==
    CASE t = "main"      -> {<<TxtInterrupted, "System">>}
      [] t = "streaming" -> {<<strip(WhisperText("one")), "Streaming">>,
                             <<TxtWhisperFailed \o TxtStderr, "ERROR">>}
      [] t = "refining"  -> {<<TxtWhisperFailed \o TxtStderr, "ERROR">>}

\* history_pad.addstr(row, 0, line); rows not drawn yet are blank
addstr(pad, row, line) ==
    [r \in 1..(IF row + 1 > Len(pad) THEN row + 1 ELSE Len(pad)) |->
        IF r = row + 1 THEN line
        ELSE IF r <= Len(pad) THEN pad[r] ELSE <<>>]

HistoryInit ==
    /\ MainConstructed
    /\ LightConstructed
    /\ EngineConstructed
    /\ UiConstructed
    /\ TeConstructed
    /\ fn_call = NoCall
    /\ audio_source = "microphone"
    /\ sentence_buffer = <<>>
    /\ seg_log = <<>>

\* add_to_history, lines 319-321: the line is built and appended
ui_add_to_history ==
    /\ Len(ui_history) < MaxHistory
    /\ \E t \in HistoryThreads :
          /\ ui_inside[t] = Outside
          /\ \E c \in added_by(t) :
                /\ ui_history' = add_to_history(ui_history, c[1], c[2])
                /\ ui_inside' = [ui_inside EXCEPT ![t] =
                       [op |-> "add_to_history", row |-> 0,
                        line |-> format_line(timestamp_now, c[2], c[1])]]
    /\ UNCHANGED <<history_pad, tr_is_running, tr_audio_queue, tr_refine_queue,
                   history_index, tr_audio, tr_stream, tr_refine, main_pc,
                   args_resume, session_path, tr_captured, run_no, entry_pos,
                   update_log, saved_history, load_log, engine_vars, seg_vars,
                   light_vars, fn_call, te_vars>>

\* add_to_history, lines 322-323: the line is drawn at row
\* len(self.history) - 1, read now, and the method returns
ui_add_draw ==
    /\ \E t \in HistoryThreads :
          /\ ui_inside[t].op = "add_to_history"
          /\ history_pad' = addstr(history_pad, Len(ui_history) - 1, ui_inside[t].line)
          /\ ui_inside' = [ui_inside EXCEPT ![t] = Outside]
    /\ UNCHANGED <<main_vars, engine_vars, seg_vars, light_vars, fn_call, te_vars>>

\* update_history_line called by refining_processor (line 265), lines
\* 327-330: the guard, and the line replaced
ui_update_history_line ==
    /\ ui_inside["refining"] = Outside
    /\ \E index \in 0..MaxHistory :
          LET refined == strip(upper(WhisperText("one")))
              updated == update_history_line(ui_history, index, refined, "Refined")
          IN  /\ ui_history' = updated
              /\ ui_inside' = IF 0 <= index /\ index < Len(ui_history)
                              THEN [ui_inside EXCEPT !["refining"] =
                                       [op |-> "update_history_line", row |-> index,
                                        line |-> updated[index + 1]]]
                              ELSE ui_inside
    /\ UNCHANGED <<history_pad, tr_is_running, tr_audio_queue, tr_refine_queue,
                   history_index, tr_audio, tr_stream, tr_refine, main_pc,
                   args_resume, session_path, tr_captured, run_no, entry_pos,
                   update_log, saved_history, load_log, engine_vars, seg_vars,
                   light_vars, fn_call, te_vars>>

\* update_history_line, lines 332-334: the row is blanked and drawn again
ui_update_draw ==
    /\ ui_inside["refining"].op = "update_history_line"
    /\ history_pad' = addstr(history_pad, ui_inside["refining"].row,
                             ui_inside["refining"].line)
    /\ ui_inside' = [ui_inside EXCEPT !["refining"] = Outside]
    /\ UNCHANGED <<main_vars, engine_vars, seg_vars, light_vars, fn_call, te_vars>>

HistoryNext ==
    \/ ui_add_to_history
    \/ ui_add_draw
    \/ ui_update_history_line
    \/ ui_update_draw

SpecHistory == HistoryInit /\ [][HistoryNext]_vars

(***************************************************************************)
(* engine_lightweight.py: LightweightTranscriptionEngine, one pass and a   *)
(* bounded audio queue.                                                    *)
(***************************************************************************)
\* line 50: queue.Queue(maxsize=3)
QueueMaxSize == 3

\* what the microphone may hold for a chunk
LightAudio == {"one", "silence"}

\* what the microphone holds in the session driven by the buttons
GuiAudio == <<"one", "silence", "one">>

\* the audio the microphone may hold for the n-th chunk
LightSource(n) ==
    IF audio_source = "scenario"
    THEN IF n <= Len(GuiAudio) THEN {GuiAudio[n]} ELSE {}
    ELSE IF n <= MaxLightChunks THEN LightAudio ELSE {}

LightInit ==
    /\ MainConstructed
    /\ LightConstructed
    /\ fn_call = NoCall
    /\ UiConstructed
    /\ TeConstructed
    /\ EngineConstructed
    /\ audio_source = "microphone"
    /\ sentence_buffer = <<>>
    /\ seg_log = <<>>

\* start(), lines 102-106: the flag is raised and three new threads are
\* started, whatever threads there are already
engine_start ==
    /\ lw_is_running' = TRUE
    /\ lw_init' = Append(lw_init, "load")
    /\ lw_audio' = Append(lw_audio, "loop")
    /\ lw_trans' = Append(lw_trans, [pc |-> "loop", chunk |-> NoChunk])
    /\ lw_chunk_id' = Append(lw_chunk_id, 0)

\* start() called once by the program that owns the engine
lw_start ==
    /\ lw_lifecycle = "idle"
    /\ lw_lifecycle' = "running"
    /\ engine_start
    /\ UNCHANGED <<lw_pipeline, lw_audio_queue, lw_session_transcripts,
                   lw_audio_buffer, lw_captured, lw_skipped, lw_popped, lw_cleared,
                   lw_buffer_writers, engine_vars, seg_vars, main_vars, fn_call, ui_vars, te_vars>>

\* _initialize_model: the pipeline is loaded, or loading raises and the
\* field is left as it is
lw_initialize_model ==
    /\ \E t \in 1..Len(lw_init) :
          /\ lw_init[t] = "load"
          /\ lw_init' = [lw_init EXCEPT ![t] = "done"]
    /\ lw_pipeline' \in {TRUE, lw_pipeline}
    /\ UNCHANGED <<lw_is_running, lw_audio_queue, lw_session_transcripts,
                   lw_audio_buffer, lw_chunk_id, lw_lifecycle, lw_audio, lw_trans,
                   lw_captured, lw_skipped, lw_popped, lw_cleared,
                   lw_buffer_writers, engine_vars, seg_vars, main_vars, fn_call, ui_vars, te_vars>>

\* lines 206-211: put_nowait, the chunk is skipped when the queue is full
put_nowait(q, chunk) ==
    IF Len(q) < QueueMaxSize THEN Append(q, chunk) ELSE q

\* lines 195-200: the buffer is trimmed to one chunk, then the read appended
buffer_append(buffer) ==
    (IF buffer > ReadsPerChunk THEN ReadsPerChunk ELSE buffer) + 1

\* _audio_input_thread, lines 189-211: the loop is left when the flag is
\* down; else one read is appended to the rolling buffer and, when the
\* buffer holds a chunk, the chunk is cut and put
lw_audio_input_thread ==
    /\ \E t \in 1..Len(lw_audio) :
          /\ lw_audio[t] = "loop"
          /\ \/ /\ ~lw_is_running
                /\ lw_audio' = [lw_audio EXCEPT ![t] = "done"]
                /\ UNCHANGED <<lw_audio_queue, lw_audio_buffer, lw_captured,
                               lw_skipped, lw_buffer_writers>>
             \/ /\ lw_is_running
                /\ LightSource(lw_captured + 1) # {}
                /\ lw_buffer_writers' = lw_buffer_writers \cup {<<"capture", t>>}
                /\ IF buffer_append(lw_audio_buffer) >= ReadsPerChunk
                   THEN /\ lw_audio_buffer' =
                              buffer_append(lw_audio_buffer) - ReadsPerChunk
                        /\ lw_captured' = lw_captured + 1
                        /\ \E a \in LightSource(lw_captured + 1) :
                              LET chunk == [n |-> lw_captured + 1, a |-> a]
                              IN  /\ lw_audio_queue' = put_nowait(lw_audio_queue, chunk)
                                  /\ lw_skipped' =
                                        IF Len(lw_audio_queue) < QueueMaxSize
                                        THEN lw_skipped
                                        ELSE Append(lw_skipped,
                                                    [chunk |-> chunk,
                                                     queue |-> lw_audio_queue])
                   ELSE /\ lw_audio_buffer' = buffer_append(lw_audio_buffer)
                        /\ UNCHANGED <<lw_audio_queue, lw_captured, lw_skipped>>
                /\ UNCHANGED lw_audio
    /\ UNCHANGED <<lw_is_running, lw_pipeline, lw_session_transcripts, lw_chunk_id,
                   lw_lifecycle, lw_init, lw_trans, lw_popped, lw_cleared,
                   engine_vars, seg_vars, main_vars, fn_call, ui_vars, te_vars>>

\* _cleanup_memory, lines 125-130: the queue is emptied
cleanup_memory(q) == <<>>

\* _cleanup_memory, line 123: the rolling buffer is replaced by an empty one
cleanup_buffer(buffer) == 0

\* _audio_input_thread, lines 213-222: the periodic clean-up
lw_periodic_cleanup ==
    /\ \E t \in 1..Len(lw_audio) :
          /\ lw_audio[t] = "loop"
          /\ lw_buffer_writers' = lw_buffer_writers \cup {<<"capture", t>>}
    /\ lw_is_running
    /\ lw_audio_queue # <<>>
    /\ lw_audio_queue' = cleanup_memory(lw_audio_queue)
    /\ lw_audio_buffer' = cleanup_buffer(lw_audio_buffer)
    /\ lw_cleared' = lw_cleared \o lw_audio_queue
    /\ UNCHANGED <<lw_is_running, lw_pipeline, lw_session_transcripts, lw_chunk_id,
                   lw_lifecycle, lw_init, lw_audio, lw_trans, lw_captured,
                   lw_skipped, lw_popped, engine_vars, seg_vars, main_vars, fn_call, ui_vars, te_vars>>

\* lines 255-260: the record of an accepted transcript
transcribed_entry(id, transcript) ==
    [id |-> id, text |-> transcript, status |-> "Transcribed"]

\* _transcription_thread
lw_transcription_thread ==
    /\ \E t \in 1..Len(lw_trans) :
       \/ \* line 243: while self.is_running
          /\ lw_trans[t].pc = "loop"
          /\ lw_trans' = [lw_trans EXCEPT ![t].pc =
                             IF lw_is_running THEN "get" ELSE "done"]
          /\ UNCHANGED <<lw_audio_queue, lw_session_transcripts, lw_chunk_id, lw_popped>>
       \/ \* lines 244-248: no pipeline, or get(timeout=1)
          /\ lw_trans[t].pc = "get"
          /\ IF lw_pipeline /\ lw_audio_queue # <<>>
             THEN /\ lw_audio_queue' = Tail(lw_audio_queue)
                  /\ lw_popped' = Append(lw_popped, Head(lw_audio_queue))
                  /\ lw_trans' = [lw_trans EXCEPT
                                     ![t] = [pc |-> "asr", chunk |-> Head(lw_audio_queue)]]
             ELSE /\ lw_trans' = [lw_trans EXCEPT ![t].pc = "loop"]
                  /\ UNCHANGED <<lw_audio_queue, lw_popped>>
          /\ UNCHANGED <<lw_session_transcripts, lw_chunk_id>>
       \/ \* lines 251, 272-274: the pipeline raises
          /\ lw_trans[t].pc = "asr"
          /\ lw_trans' = [lw_trans EXCEPT ![t] = [pc |-> "loop", chunk |-> NoChunk]]
          /\ UNCHANGED <<lw_audio_queue, lw_session_transcripts, lw_chunk_id, lw_popped>>
       \/ \* lines 251-265: the pipeline returns
          /\ lw_trans[t].pc = "asr"
          /\ LET transcript == strip(FastText(lw_trans[t].chunk.a))
             IN  IF accepts(transcript)
                 THEN /\ lw_session_transcripts' =
                            Append(lw_session_transcripts,
                                   transcribed_entry(lw_chunk_id[t], transcript))
                      /\ lw_chunk_id' = [lw_chunk_id EXCEPT ![t] = @ + 1]
                 ELSE UNCHANGED <<lw_session_transcripts, lw_chunk_id>>
          /\ lw_trans' = [lw_trans EXCEPT ![t] = [pc |-> "loop", chunk |-> NoChunk]]
          /\ UNCHANGED <<lw_audio_queue, lw_popped>>
    /\ UNCHANGED <<lw_is_running, lw_pipeline, lw_audio_buffer, lw_lifecycle,
                   lw_init, lw_audio, lw_captured, lw_skipped, lw_cleared,
                   lw_buffer_writers, engine_vars, seg_vars, main_vars, fn_call, ui_vars, te_vars>>

\* stop(), lines 114-117: the flag is cleared and _cleanup_memory called on
\* the caller's thread: the rolling buffer and the queue are emptied
engine_stop ==
    /\ lw_is_running' = FALSE
    /\ lw_audio_buffer' = cleanup_buffer(lw_audio_buffer)
    /\ lw_buffer_writers' = lw_buffer_writers \cup {<<"controller", 0>>}
    /\ lw_audio_queue' = cleanup_memory(lw_audio_queue)
    /\ lw_cleared' = lw_cleared \o lw_audio_queue

\* stop() called once by the program that owns the engine
lw_stop ==
    /\ lw_lifecycle = "running"
    /\ lw_lifecycle' = "stopped"
    /\ engine_stop
    /\ UNCHANGED <<lw_pipeline, lw_session_transcripts, lw_chunk_id, lw_init,
                   lw_audio, lw_trans, lw_captured, lw_skipped, lw_popped,
                   engine_vars, seg_vars, main_vars, fn_call, ui_vars, te_vars>>

LightNext ==
    \/ lw_start
    \/ lw_initialize_model
    \/ lw_audio_input_thread
    \/ lw_periodic_cleanup
    \/ lw_transcription_thread
    \/ lw_stop

SpecLight == LightInit /\ [][LightNext]_vars

(***************************************************************************)
(* gui_lightweight.py: LightweightTranscriberGUI, the Start and Stop       *)
(* buttons.  lw_lifecycle is "running" when the GUI's is_running is True;  *)
(* "idle" and "stopped" are its False before and after the first start.    *)
(***************************************************************************)
LightGuiInit ==
    /\ MainConstructed
    /\ LightConstructed
    /\ fn_call = NoCall
    /\ UiConstructed
    /\ TeConstructed
    /\ EngineConstructed
    /\ audio_source = "scenario"
    /\ sentence_buffer = <<>>
    /\ seg_log = <<>>

\* start_transcription, lines 157-163
start_transcription ==
    /\ lw_lifecycle # "running"
    /\ Len(lw_trans) < MaxStarts
    /\ lw_lifecycle' = "running"
    /\ engine_start
    /\ UNCHANGED <<lw_pipeline, lw_audio_queue, lw_session_transcripts,
                   lw_audio_buffer, lw_captured, lw_skipped, lw_popped, lw_cleared,
                   lw_buffer_writers, engine_vars, seg_vars, main_vars, fn_call, ui_vars, te_vars>>

\* stop_transcription, lines 165-172
stop_transcription ==
    /\ lw_lifecycle = "running"
    /\ lw_lifecycle' = "stopped"
    /\ engine_stop
    /\ UNCHANGED <<lw_pipeline, lw_session_transcripts, lw_chunk_id, lw_init,
                   lw_audio, lw_trans, lw_captured, lw_skipped, lw_popped,
                   engine_vars, seg_vars, main_vars, fn_call, ui_vars, te_vars>>

LightGuiNext ==
    \/ start_transcription
    \/ lw_initialize_model
    \/ lw_audio_input_thread
    \/ lw_periodic_cleanup
    \/ lw_transcription_thread
    \/ stop_transcription

SpecLightGui == LightGuiInit /\ [][LightGuiNext]_vars

(***************************************************************************)
(* SpecUpdateLine: TranscriptionUI.update_history_line of main.py applied  *)
(* to a history, an index and a refined text.                              *)
(***************************************************************************)
\* lines the history of a run holds behind its first line
HistoryLines ==
    { format_line(timestamp_now, "Streaming", strip(TxtChunkOne)),
      format_line(timestamp_now, "Refined", strip(upper(TxtChunkTwo))),
      whisper_failed(<<>>)[1] }

RECURSIVE lines_upto(_)
lines_upto(n) ==
    IF n = 0 THEN {<<>>}
    ELSE lines_upto(n - 1)
            \cup {Append(h, l) : h \in {g \in lines_upto(n - 1) : Len(g) = n - 1},
                                 l \in HistoryLines}

\* the histories: empty, or the first line of main_ui and up to MaxLines lines
Histories ==
    {<<>>} \cup {add_to_history(<<>>, TxtSystemInitialized, "Streaming") \o h :
                    h \in lines_upto(MaxLines)}

RefinedTexts == {strip(upper(TxtChunkOne)), strip(upper(TxtChunkThree))}

UpdateInit ==
    /\ MainConstructed
    /\ UiConstructed
    /\ TeConstructed
    /\ LightConstructed
    /\ EngineConstructed
    /\ audio_source = "microphone"
    /\ sentence_buffer = <<>>
    /\ seg_log = <<>>
    /\ \E h \in Histories, i \in 0..(MaxLines + 2), t \in RefinedTexts :
          fn_call = [op |-> "update_history_line", done |-> FALSE,
                     history |-> h, index |-> i, text |-> t, result |-> <<>>]

\* refining_processor, line 265: self.ui.update_history_line(..., "Refined")
call_update_history_line ==
    /\ fn_call.op = "update_history_line"
    /\ ~fn_call.done
    /\ fn_call' = [fn_call EXCEPT
                      !.done = TRUE,
                      !.result = update_history_line(fn_call.history, fn_call.index,
                                                     fn_call.text, "Refined")]
    /\ UNCHANGED <<engine_vars, seg_vars, main_vars, light_vars, ui_vars, te_vars>>

UpdateNext == call_update_history_line

SpecUpdateLine == UpdateInit /\ [][UpdateNext]_vars

(***************************************************************************)
(* The chunkers: _file_input of main.py, process_audio_file of             *)
(* live_streaming_transcriber.py and the capture loop of engine.py, each   *)
(* applied to a source of a given length.  Lengths are counted in units    *)
(* of samples; the queue is kept as the lengths of the chunks put.         *)
(***************************************************************************)
\* chunk_samples and the samples of one stream.read(1024), in units
ChunkSamples == 3
ReadSamples == 2
MaxSourceSamples == 12

Chunkers == {"_file_input", "process_audio_file", "_audio_input_thread"}

\* len(data[:n])
taken(len, n) == IF len < n THEN len ELSE n

ChunkerInit ==
    /\ MainConstructed
    /\ LightConstructed
    /\ EngineConstructed
    /\ UiConstructed
    /\ TeConstructed
    /\ audio_source = "microphone"
    /\ sentence_buffer = <<>>
    /\ seg_log = <<>>
    /\ \E c \in Chunkers, total \in 0..MaxSourceSamples :
          fn_call = [op |-> c, done |-> FALSE, remaining |-> total,
                     buffer |-> 0, queue |-> <<>>]

\* main.py, lines 200-207: read(chunk_size) returns what is left when less
\* than a chunk is left; whatever is read is put
call_file_input ==
    /\ fn_call.op = "_file_input"
    /\ ~fn_call.done
    /\ LET chunk_data == taken(fn_call.remaining, ChunkSamples)
       IN  fn_call' = IF chunk_data = 0
                      THEN [fn_call EXCEPT !.done = TRUE]
                      ELSE [fn_call EXCEPT
                               !.remaining = @ - chunk_data,
                               !.queue = Append(@, chunk_data)]
    /\ UNCHANGED <<engine_vars, seg_vars, main_vars, light_vars, ui_vars, te_vars>>

\* live_streaming_transcriber.py, lines 180-191: the same read; only a
\* chunk of full length is put
call_process_audio_file ==
    /\ fn_call.op = "process_audio_file"
    /\ ~fn_call.done
    /\ LET chunk_data == taken(fn_call.remaining, ChunkSamples)
       IN  fn_call' = IF chunk_data = 0
                      THEN [fn_call EXCEPT !.done = TRUE]
                      ELSE [fn_call EXCEPT
                               !.remaining = @ - chunk_data,
                               !.queue = IF chunk_data = ChunkSamples
                                         THEN Append(@, chunk_data) ELSE @]
    /\ UNCHANGED <<engine_vars, seg_vars, main_vars, light_vars, ui_vars, te_vars>>

\* engine.py, lines 150-156: a read of 1024 frames is appended to the
\* rolling buffer; a buffer of a chunk or more is cut at the front
call_audio_input_thread ==
    /\ fn_call.op = "_audio_input_thread"
    /\ ~fn_call.done
    /\ IF fn_call.remaining < ReadSamples
       THEN fn_call' = [fn_call EXCEPT !.done = TRUE]
       ELSE LET appended == fn_call.buffer + ReadSamples
            IN  fn_call' =
                   IF appended >= ChunkSamples
                   THEN [fn_call EXCEPT
                            !.remaining = @ - ReadSamples,
                            !.buffer = appended - taken(appended, ChunkSamples),
                            !.queue = Append(@, taken(appended, ChunkSamples))]
                   ELSE [fn_call EXCEPT
                            !.remaining = @ - ReadSamples,
                            !.buffer = appended]
    /\ UNCHANGED <<engine_vars, seg_vars, main_vars, light_vars, ui_vars, te_vars>>

ChunkerNext ==
    \/ call_file_input
    \/ call_process_audio_file
    \/ call_audio_input_thread

SpecChunker == ChunkerInit /\ [][ChunkerNext]_vars

(***************************************************************************)
(* live_streaming_transcriber.py: audio_processor and save_transcript.     *)
(* The source is a recording of MaxLiveChunks chunks of which one, or      *)
(* none, is silent.                                                        *)
(***************************************************************************)
\* line 73: self.max_history_lines = 20
MaxHistoryLines == 20

MaxLiveChunks == 22

\* transcribe_chunk for the n-th chunk of a recording whose chunk number
\* silent holds no speech
LiveText(n, silent) == IF n = silent THEN <<>> ELSE <<"chunk", " ", ToString(n)>>

\* line 283: f"[{timestamp}] {transcript}"
transcript_line(timestamp, transcript) ==
    <<"[">> \o timestamp \o <<"]", " ">> \o transcript

\* lines 284-288: the line is appended and the history kept to its maximum
keep_recent(history, line) ==
    LET appended == Append(history, line)
    IN  IF Len(appended) > MaxHistoryLines THEN Tail(appended) ELSE appended

NotSaved == [written |-> FALSE, lines |-> <<>>]

LiveInit ==
    /\ MainConstructed
    /\ LightConstructed
    /\ EngineConstructed
    /\ UiConstructed
    /\ TeConstructed
    /\ audio_source = "microphone"
    /\ sentence_buffer = <<>>
    /\ seg_log = <<>>
    /\ \E silent \in 0..MaxLiveChunks :
          fn_call = [op |-> "audio_processor", done |-> FALSE, silent |-> silent,
                     processed |-> 0, transcript_history |-> <<>>,
                     produced |-> <<>>, saved |-> NotSaved]

\* audio_processor, lines 275-294: one chunk is taken and transcribed
live_audio_processor ==
    /\ fn_call.op = "audio_processor"
    /\ ~fn_call.done
    /\ fn_call.processed < MaxLiveChunks
    /\ LET transcript == strip(LiveText(fn_call.processed + 1, fn_call.silent))
           line       == transcript_line(timestamp_now, transcript)
       IN  fn_call' =
              IF transcript # <<>>
              THEN [fn_call EXCEPT
                       !.processed = @ + 1,
                       !.transcript_history = keep_recent(@, line),
                       !.produced = Append(@, line)]
              ELSE [fn_call EXCEPT !.processed = @ + 1]
    /\ UNCHANGED <<engine_vars, seg_vars, main_vars, light_vars, ui_vars, te_vars>>

\* main, lines 424-429, and save_transcript, lines 326-338: after stop() the
\* lines of transcript_history are written, or the file cannot be opened
live_save_transcript ==
    /\ fn_call.op = "audio_processor"
    /\ ~fn_call.done
    /\ \/ fn_call' = [fn_call EXCEPT
                         !.done = TRUE,
                         !.saved = [written |-> TRUE,
                                    lines |-> fn_call.transcript_history]]
       \/ fn_call' = [fn_call EXCEPT !.done = TRUE]
    /\ UNCHANGED <<engine_vars, seg_vars, main_vars, light_vars, ui_vars, te_vars>>

LiveNext ==
    \/ live_audio_processor
    \/ live_save_transcript

SpecLive == LiveInit /\ [][LiveNext]_vars

(***************************************************************************)
(* transcription_engine.py: the first TranscriptionEngine.  start launches  *)
(* the model loader and the three workers together; the workers take from  *)
(* their queue before they look at the pipeline attribute.                  *)
(***************************************************************************)
MaxTeChunks == 2

TeInit ==
    /\ EngineConstructed
    /\ MainConstructed
    /\ LightConstructed
    /\ fn_call = NoCall
    /\ UiConstructed
    /\ TeConstructed
    /\ audio_source = "microphone"
    /\ sentence_buffer = <<>>
    /\ seg_log = <<>>

\* lines 69-87: start sets is_running and starts the loader and the workers
te_start ==
    /\ te_init = "off"
    /\ te_is_running' = TRUE
    /\ te_init' = "streaming"
    /\ te_audio' = "loop"
    /\ te_stream' = [te_stream EXCEPT !.pc = "loop"]
    /\ te_refine' = [te_refine EXCEPT !.pc = "loop"]
    /\ UNCHANGED <<te_streaming_pipeline, te_refining_pipeline, te_audio_queue,
                   te_refine_queue, te_captured, te_log>>
    /\ UNCHANGED <<engine_vars, seg_vars, main_vars, light_vars, fn_call, ui_vars>>

\* lines 89-91
te_stop ==
    /\ te_is_running
    /\ te_is_running' = FALSE
    /\ UNCHANGED <<te_streaming_pipeline, te_refining_pipeline, te_audio_queue,
                   te_refine_queue, te_init, te_audio, te_stream, te_refine,
                   te_captured, te_log>>
    /\ UNCHANGED <<engine_vars, seg_vars, main_vars, light_vars, fn_call, ui_vars>>

\* lines 49-67: the streaming pipeline is assigned at line 53 and the
\* refining pipeline at line 60; an exception of either load is caught at
\* line 66 and leaves the attributes not yet assigned unassigned
te_initialize_models ==
    /\ \/ /\ te_init = "streaming"
          /\ \/ /\ te_streaming_pipeline' = "loaded"
                /\ te_init' = "refining"
             \/ /\ te_init' = "failed"
                /\ UNCHANGED te_streaming_pipeline
          /\ UNCHANGED te_refining_pipeline
       \/ /\ te_init = "refining"
          /\ \/ /\ te_refining_pipeline' = "loaded"
                /\ te_init' = "done"
             \/ /\ te_init' = "failed"
                /\ UNCHANGED te_refining_pipeline
          /\ UNCHANGED te_streaming_pipeline
    /\ UNCHANGED <<te_is_running, te_audio_queue, te_refine_queue, te_audio,
                   te_stream, te_refine, te_captured, te_log>>
    /\ UNCHANGED <<engine_vars, seg_vars, main_vars, light_vars, fn_call, ui_vars>>

\* lines 102-111: each pass of the loop that completes a chunk puts it in
\* the unbounded audio_queue; the loop ends when is_running is False
te_audio_input_thread ==
    /\ te_audio = "loop"
    /\ \/ /\ ~te_is_running
          /\ te_audio' = "done"
          /\ UNCHANGED <<te_audio_queue, te_captured>>
       \/ /\ te_is_running
          /\ te_captured < MaxTeChunks
          /\ te_captured' = te_captured + 1
          /\ te_audio_queue' = Append(te_audio_queue, te_captured + 1)
          /\ UNCHANGED te_audio
    /\ UNCHANGED <<te_is_running, te_streaming_pipeline, te_refining_pipeline,
                   te_refine_queue, te_init, te_stream, te_refine, te_log>>
    /\ UNCHANGED <<engine_vars, seg_vars, main_vars, light_vars, fn_call, ui_vars>>

\* lines 116-127: the chunk is taken at line 118, the pipeline attribute is
\* read at line 119; an attribute never assigned raises AttributeError, which
\* the except clause of line 126 (queue.Empty) does not catch
te_streaming_thread ==
    /\ \/ /\ te_stream.pc = "loop"
          /\ \/ /\ ~te_is_running
                /\ te_stream' = [te_stream EXCEPT !.pc = "done"]
                /\ UNCHANGED te_audio_queue
             \/ /\ te_is_running
                /\ te_audio_queue # <<>>
                /\ te_stream' = [te_stream EXCEPT !.pc = "test",
                                                  !.chunk = Head(te_audio_queue)]
                /\ te_audio_queue' = Tail(te_audio_queue)
          /\ UNCHANGED <<te_refine_queue, te_log>>
       \/ /\ te_stream.pc = "test"
          /\ IF te_streaming_pipeline = "loaded"
             THEN te_stream' = [te_stream EXCEPT !.pc = "asr"]
             ELSE te_stream' = [te_stream EXCEPT !.pc = "raised",
                                                 !.error = "AttributeError"]
          /\ UNCHANGED <<te_audio_queue, te_refine_queue, te_log>>
       \/ /\ te_stream.pc = "asr"
          /\ \/ /\ te_log' = Append(te_log,
                       [id |-> te_stream.chunk_id, chunk |-> te_stream.chunk,
                        status |-> "Streaming"])
                /\ te_refine_queue' = Append(te_refine_queue,
                       [id |-> te_stream.chunk_id, chunk |-> te_stream.chunk])
                /\ te_stream' = [te_stream EXCEPT !.pc = "loop",
                                     !.chunk_id = te_stream.chunk_id + 1]
             \/ /\ te_stream' = [te_stream EXCEPT !.pc = "raised",
                                                  !.error = "pipeline"]
                /\ UNCHANGED <<te_refine_queue, te_log>>
          /\ UNCHANGED te_audio_queue
    /\ UNCHANGED <<te_is_running, te_streaming_pipeline, te_refining_pipeline,
                   te_init, te_audio, te_refine, te_captured>>
    /\ UNCHANGED <<engine_vars, seg_vars, main_vars, light_vars, fn_call, ui_vars>>

\* lines 131-140: the job is taken at line 133, the pipeline attribute is
\* read at line 134
te_refining_thread ==
    /\ \/ /\ te_refine.pc = "loop"
          /\ \/ /\ ~te_is_running
                /\ te_refine' = [te_refine EXCEPT !.pc = "done"]
                /\ UNCHANGED te_refine_queue
             \/ /\ te_is_running
                /\ te_refine_queue # <<>>
                /\ te_refine' = [te_refine EXCEPT !.pc = "test",
                                                  !.job = Head(te_refine_queue)]
                /\ te_refine_queue' = Tail(te_refine_queue)
          /\ UNCHANGED te_log
       \/ /\ te_refine.pc = "test"
          /\ IF te_refining_pipeline = "loaded"
             THEN te_refine' = [te_refine EXCEPT !.pc = "asr"]
             ELSE te_refine' = [te_refine EXCEPT !.pc = "raised",
                                                 !.error = "AttributeError"]
          /\ UNCHANGED <<te_refine_queue, te_log>>
       \/ /\ te_refine.pc = "asr"
          /\ \/ /\ te_log' = Append(te_log,
                       [id |-> te_refine.job.id, chunk |-> te_refine.job.chunk,
                        status |-> "Refined"])
                /\ te_refine' = [te_refine EXCEPT !.pc = "loop"]
             \/ /\ te_refine' = [te_refine EXCEPT !.pc = "raised",
                                                  !.error = "pipeline"]
                /\ UNCHANGED te_log
          /\ UNCHANGED te_refine_queue
    /\ UNCHANGED <<te_is_running, te_streaming_pipeline, te_refining_pipeline,
                   te_audio_queue, te_init, te_audio, te_stream, te_captured>>
    /\ UNCHANGED <<engine_vars, seg_vars, main_vars, light_vars, fn_call, ui_vars>>

TeNext ==
    \/ te_start
    \/ te_stop
    \/ te_initialize_models
    \/ te_audio_input_thread
    \/ te_streaming_thread
    \/ te_refining_thread

SpecTranscriptionEngine == TeInit /\ [][TeNext]_vars

(***************************************************************************)
(* two_pass_transcriber.py: TwoPassTranscriber.two_pass_transcribe, one    *)
(* call followed from the streaming pass to its return or its exception.   *)
(***************************************************************************)
\* what one run of whisper-cli gives _run_whisper to return; "" is also what
\* lines 117-123 return when the run fails
WhisperTexts == {"", "fast text", "slow text"}

\* fn_call.prompt_file before refining_pass has assigned it
NoPromptFile == "unassigned"

TwoPassInit ==
    /\ EngineConstructed
    /\ MainConstructed
    /\ LightConstructed
    /\ UiConstructed
    /\ TeConstructed
    /\ audio_source = "microphone"
    /\ sentence_buffer = <<>>
    /\ seg_log = <<>>
    /\ \E fast \in WhisperTexts, slow \in WhisperTexts,
          given \in BOOLEAN, tmp \in BOOLEAN, cwd \in BOOLEAN :
          fn_call = [op               |-> "two_pass_transcribe",
                     pc               |-> "streaming_pass",
                     tiny_output      |-> fast,
                     base_output      |-> slow,
                     output_file      |-> given,
                     tmp_writable     |-> tmp,
                     cwd_writable     |-> cwd,
                     streaming_result |-> "",
                     prompt_file      |-> NoPromptFile,
                     refining_result  |-> "",
                     result           |-> "",
                     raised           |-> "none"]

\* lines 183-191: the name of the temporary file, or None when it cannot be
\* created
create_prompt_file(tmp_writable) == IF tmp_writable THEN "prompt.txt" ELSE "None"

\* lines 125-146 and 200-203: the streaming pass returns what the tiny model
\* gave; with an empty result the refining pass is called without context
\* (line 203) and what it returns is returned
call_streaming_pass ==
    /\ fn_call.op = "two_pass_transcribe"
    /\ fn_call.pc = "streaming_pass"
    /\ fn_call' = [fn_call EXCEPT !.streaming_result = fn_call.tiny_output,
                                  !.pc = IF fn_call.tiny_output = ""
                                         THEN "refining_pass_alone"
                                         ELSE "refining_pass"]
    /\ UNCHANGED <<engine_vars, seg_vars, main_vars, light_vars, ui_vars, te_vars>>

\* lines 148-181.  Without an initial transcript (line 203) no prompt file is
\* made and the transcript is returned.  With one (line 206), prompt_file is
\* assigned by line 166, so the test of line 173 holds and line 174 unlinks
\* it: os.unlink(None) raises TypeError when the file could not be created.
call_refining_pass ==
    /\ fn_call.op = "two_pass_transcribe"
    /\ \/ /\ fn_call.pc = "refining_pass_alone"
          /\ fn_call' = [fn_call EXCEPT !.refining_result = fn_call.base_output,
                                        !.result = fn_call.base_output,
                                        !.pc = "returned"]
       \/ /\ fn_call.pc = "refining_pass"
          /\ LET prompt_file == create_prompt_file(fn_call.tmp_writable)
             IN  IF prompt_file = "None"
                 THEN fn_call' = [fn_call EXCEPT !.prompt_file = prompt_file,
                                                 !.raised = "TypeError",
                                                 !.pc = "raised"]
                 ELSE fn_call' = [fn_call EXCEPT !.prompt_file = prompt_file,
                                                 !.refining_result = fn_call.base_output,
                                                 !.pc = "final_result"]
    /\ UNCHANGED <<engine_vars, seg_vars, main_vars, light_vars, ui_vars, te_vars>>

\* lines 208-220: a non-empty final result is returned after the streaming
\* result has been written to <stem>_streaming.txt in the working directory
\* when an output file was named (the open of line 213 is not guarded);
\* an empty final result returns the streaming result
call_return_result ==
    /\ fn_call.op = "two_pass_transcribe"
    /\ fn_call.pc = "final_result"
    /\ IF fn_call.refining_result # ""
       THEN IF fn_call.output_file /\ ~fn_call.cwd_writable
            THEN fn_call' = [fn_call EXCEPT !.raised = "OSError", !.pc = "raised"]
            ELSE fn_call' = [fn_call EXCEPT !.result = fn_call.refining_result,
                                            !.pc = "returned"]
       ELSE fn_call' = [fn_call EXCEPT !.result = fn_call.streaming_result,
                                       !.pc = "returned"]
    /\ UNCHANGED <<engine_vars, seg_vars, main_vars, light_vars, ui_vars, te_vars>>

TwoPassNext ==
    \/ call_streaming_pass
    \/ call_refining_pass
    \/ call_return_result

SpecTwoPass == TwoPassInit /\ [][TwoPassNext]_vars

(***************************************************************************)
(* SpecSegmenter: the sentence buffer under a bounded sequence of feeds.   *)
(***************************************************************************)
SegInit ==
    /\ sentence_buffer = <<>>
    /\ seg_log = <<>>
    /\ EngineConstructed
    /\ MainConstructed
    /\ LightConstructed
    /\ fn_call = NoCall
    /\ UiConstructed
    /\ TeConstructed
    /\ audio_source = "microphone"

SegFeed ==
    /\ Len(seg_log) < MaxFeeds
    /\ \E raw \in SegTexts :
          LET r == feed(sentence_buffer, raw)
          IN  /\ sentence_buffer' = r.buffer
              /\ seg_log' = Append(seg_log,
                     [before |-> sentence_buffer, raw |-> raw,
                      accepted |-> r.accepted, cuts |-> r.cuts,
                      sentences |-> r.sentences, after |-> r.buffer])
    /\ UNCHANGED <<engine_vars, main_vars, light_vars, fn_call, ui_vars, te_vars>>

SegNext == SegFeed

SpecSegmenter == SegInit /\ [][SegNext]_vars

seg_raws == [i \in 1..Len(seg_log) |-> seg_log[i].raw]

seg_emitted == concat([i \in 1..Len(seg_log) |-> seg_log[i].sentences])

\* C7: every sentence emitted by a feed contains exactly one terminal mark
\* ('.', '!' or '?'), and that mark is its last character: the buffer is cut
\* at every terminal mark in the order the marks occur in the text.
C7_OneMarkPerSentence ==
    \A i \in 1..Len(seg_log) :
        \A k \in 1..Len(seg_log[i].sentences) :
            LET s == seg_log[i].sentences[k]
            IN  num_marks(s) = 1 /\ IsMark(s[Len(s)])

\* C8 as stated: a text fed without a terminal mark is kept in the buffer,
\* and the feed that supplies the terminal mark emits it, space-joined, as
\* the start of its first sentence; the three feeds "Hello world.",
\* " This is fine", " too." give exactly "Hello world." and
\* "This is fine too.".
C8_BufferedTextAlwaysEmitted ==
    /\ \A i \in 1..Len(seg_log) :
          LET e == seg_log[i]
              t == strip(e.raw)
          IN  /\ (t # <<>> /\ ~has_mark(t)) =>
                    (e.sentences = <<>> /\ e.after = spaced(e.before, t))
              /\ (e.before # <<>> /\ has_mark(t)) =>
                    /\ e.sentences # <<>>
                    /\ is_prefix(e.before \o <<" ">>, e.sentences[1])
    /\ (seg_raws = <<TxtHelloWorld, TxtThisIsFine, TxtToo>>) =>
          seg_emitted = <<strip(TxtHelloWorld), TxtThisIsFineToo>>

\* C8 amended: a fed text of more than 2 characters without a terminal mark
\* is kept in the buffer; a fed text of at most 2 characters is ignored; the
\* feed (of more than 2 characters) that supplies the terminal mark cuts the
\* buffered text, space-joined with its own, exactly once, and emits the cut
\* when it is longer than 10 characters; cuts are made in text order and
\* nothing is lost or repeated; the three feeds of the example give exactly
\* "Hello world." and "This is fine too.".
C8_BufferedTextEmittedOnce ==
    /\ \A i \in 1..Len(seg_log) :
          LET e == seg_log[i]
              t == strip(e.raw)
          IN  /\ Len(t) <= MinTranscriptLen =>
                    (e.sentences = <<>> /\ e.after = e.before)
              /\ (Len(t) > MinTranscriptLen /\ ~has_mark(t)) =>
                    (e.sentences = <<>> /\ e.after = spaced(e.before, t))
              /\ (Len(t) > MinTranscriptLen /\ has_mark(t)) =>
                    /\ e.cuts # <<>>
                    /\ e.before # <<>> => is_prefix(e.before \o <<" ">>, e.cuts[1])
                    /\ Len(e.cuts[1]) > MinSentenceLen =>
                          (e.sentences # <<>> /\ e.sentences[1] = e.cuts[1])
                    /\ no_space(concat(e.cuts) \o e.after)
                          = no_space(e.before \o t)
                    /\ ~has_mark(e.after)
    /\ (seg_raws = <<TxtHelloWorld, TxtThisIsFine, TxtToo>>) =>
          seg_emitted = <<strip(TxtHelloWorld), TxtThisIsFineToo>>

\* C8 witness: the three feeds of the example have been made.
C8_Witness ==
    /\ seg_raws = <<TxtHelloWorld, TxtThisIsFine, TxtToo>>
    /\ seg_log[2].after = strip(TxtThisIsFine)
    /\ seg_log[3].before = strip(TxtThisIsFine)

\* C9: a candidate of 10 characters or fewer is never emitted, and it is
\* removed from the buffer: after every feed that cuts, the buffer is exactly
\* the text that followed the last terminal mark, so no later sentence starts
\* with a discarded candidate ("Ok." fed to an empty buffer leaves nothing).
C9_ShortCandidatesDiscarded ==
    \A i \in 1..Len(seg_log) :
        LET e      == seg_log[i]
            t      == strip(e.raw)
            joined == spaced(e.before, t)
        IN  /\ \A k \in 1..Len(e.sentences) : Len(e.sentences[k]) > MinSentenceLen
            /\ \A k \in 1..Len(e.cuts) :
                  Len(e.cuts[k]) <= MinSentenceLen =>
                      \A m \in 1..Len(e.sentences) : e.sentences[m] # e.cuts[k]
            /\ (e.accepted /\ has_mark(joined)) =>
                  e.after = strip(SubSeq(joined, last_mark(joined) + 1, Len(joined)))
            /\ (e.before = <<>> /\ e.raw = TxtOk) =>
                  (e.sentences = <<>> /\ e.after = <<>>)

\* C9 witness: a feed discarded a short candidate and a later feed emitted a
\* sentence.
C9_Witness ==
    \E i \in 1..Len(seg_log) : \E j \in (i + 1)..Len(seg_log) :
        /\ \E k \in 1..Len(seg_log[i].cuts) : Len(seg_log[i].cuts[k]) <= MinSentenceLen
        /\ seg_log[j].sentences # <<>>

(***************************************************************************)
(* Properties of engine.py.                                                *)
(***************************************************************************)
is_streaming(k) == events[k].status = "Streaming"

is_refined(k) == events[k].status = "Refined"

\* the jobs on the refine queue or held by the refining thread
pending_jobs ==
    {refine_queue[i] : i \in 1..Len(refine_queue)}
        \cup (IF st_refine.pc = "asr" THEN {st_refine.job} ELSE {})

\* C1: the ids of the Streaming entries are strictly increasing in the order
\* they are appended (so each id is appended once), and every Refined update
\* of an id comes after the Streaming append of that id.
C1_AppendOnceBeforeUpdate ==
    /\ \A i \in 1..Len(events) : \A j \in (i + 1)..Len(events) :
          (is_streaming(i) /\ is_streaming(j)) => events[i].id < events[j].id
    /\ \A k \in 1..Len(events) :
          is_refined(k) =>
              \E j \in 1..(k - 1) : is_streaming(j) /\ events[j].id = events[k].id

\* the end-to-end scenario ran without an engine failure
E2ENoFailure ==
    /\ audio_source = "scenario"
    /\ \A i \in 1..Len(fast_log) : fast_log[i].ok
    /\ \A i \in 1..Len(refine_log) : refine_log[i].ok

\* ... and every chunk went through both passes and was shown
E2EDone ==
    /\ E2ENoFailure
    /\ Len(fast_log) = Len(E2EAudio)
    /\ Len(refine_log) = Len(E2EAudio)
    /\ transcription_queue = <<>>

E2EStreaming ==
    [k \in 1..Len(E2EAudio) |->
        [id |-> k - 1, text |-> strip(FastText(E2EAudio[k])), status |-> "Streaming"]]

E2ERefined ==
    [k \in 1..Len(E2EAudio) |->
        [id |-> k - 1, text |-> upper(strip(FastText(E2EAudio[k]))), status |-> "Refined"]]

\* C2: in the end-to-end scenario (three chunks, one sentence each, the
\* refining engine returning the text uppercased) the Streaming entries are
\* the three sentences in chunk order, and once both passes have handled the
\* three chunks every entry has been replaced by its uppercased Refined text
\* and a snapshot holds exactly three records, all Refined.
C2_EndToEnd ==
    E2ENoFailure =>
        /\ is_prefix(SelectSeq(events, LAMBDA e : e.status = "Streaming"), E2EStreaming)
        /\ E2EDone =>
              /\ DOMAIN transcripts = {k - 1 : k \in 1..Len(E2EAudio)}
              /\ \A k \in 1..Len(E2EAudio) : transcripts[k - 1] = E2ERefined[k]
              /\ save_session(session_transcripts, MaxClock).records
                    = [k \in 1..Len(E2EAudio) |->
                          [status |-> "Refined", text |-> E2ERefined[k].text]]

\* C3: every RefineJob that is queued or held by the refining thread carries
\* the id of an entry that has already been appended with status Streaming.
C3_JobNamesStreamingEntry ==
    \A job \in pending_jobs :
        \E k \in 1..Len(events) : is_streaming(k) /\ events[k].id = job.id

\* C4: for every id at most one entry is created and it changes at most once,
\* from Streaming to Refined: of two events of the same id the first is the
\* Streaming append and the second the Refined update, and there is no third.
C4_CreatedOnceRefinedOnce ==
    \A i \in 1..Len(events) : \A j \in (i + 1)..Len(events) :
        events[i].id = events[j].id => (is_streaming(i) /\ is_refined(j))

C5_RefineLeavesOtherEntries ==
    \A k \in 1..Len(update_log) :
        update_log[k].written =>
            \A j \in (DOMAIN entry_pos) \ {update_log[k].id} :
                entry_pos[j] # update_log[k].index

\* C10: a snapshot (save_session) followed by a load of the session of that
\* name (load_session in a resumed run) reconstructs the snapshotted list of
\* history lines: line for line equal, none added, dropped, split or altered.
C10_SnapshotLoadRoundTrip ==
    load_log.resumed => load_log.lines = load_log.snapshot

\* a line of the history that holds a transcript: its status is Streaming or
\* Refined and it is not the first line main_ui adds
is_transcript_line(line) ==
    /\ Len(line) > 8
    /\ line[6] \in {"Streaming", "Refined"}
    /\ SubSeq(line, 9, Len(line)) # TxtSystemInitialized

\* C11: after a resume the ids the fast pass assigns continue after the
\* loaded ones, so that no refine update of the resumed run is written over
\* a transcript entry that load_session loaded from the previous run.
C11_ResumeLeavesLoadedEntries ==
    load_log.resumed =>
        \A k \in 1..Len(update_log) :
            (/\ update_log[k].written
             /\ 1 <= update_log[k].index
             /\ update_log[k].index <= Len(load_log.lines))
                => ~is_transcript_line(load_log.lines[update_log[k].index])

(***************************************************************************)
(* Properties of the session file of engine.py.                            *)
(***************************************************************************)
\* C12: two snapshots (_save_session calls) with no append or update of the
\* session between them write byte-identical file contents.
C12_SnapshotIdempotent ==
    \A i \in 1..Len(save_log) : \A j \in (i + 1)..Len(save_log) :
        save_log[i].entries = save_log[j].entries
            => save_log[i].file = save_log[j].file

(***************************************************************************)
(* Properties of the audio queue of engine_lightweight.py.                 *)
(***************************************************************************)
\* C13: the capture queue holds at most its capacity; when a push finds it
\* full the push does not block and the chunk given up is older than every
\* chunk the queue keeps, so that the consumer sees the most recent chunks.
C13_OverflowDropsOldest ==
    /\ Len(lw_audio_queue) <= QueueMaxSize
    /\ \A k \in 1..Len(lw_skipped) :
          \A i \in 1..Len(lw_skipped[k].queue) :
              lw_skipped[k].chunk.n < lw_skipped[k].queue[i].n

(***************************************************************************)
(* Properties of the workers of main.py under engine failures.             *)
(***************************************************************************)
\* C14: a failing fast engine call leaves the fast-pass worker alive: in no
\* state has the worker ended on a failed call while chunks enqueued behind
\* the failing one wait in the audio queue.
C14_FastWorkerSurvivesFailure ==
    ~(tr_stream.pc = "raised" /\ tr_audio_queue # <<>>)

\* C15: a refine engine call that ends without a result for its job leaves
\* every line already in the history as it is (the entry of the job keeps
\* its Streaming text and status) and the refine worker goes back to its
\* loop for the following jobs.
C15_RefineFailureLeavesEntries ==
    [][(tr_refine.pc = "asr" /\ tr_refine'.pc # "asr" /\ update_log' = update_log)
          => (is_prefix(ui_history, ui_history') /\ tr_refine'.pc = "loop")]_vars

\* C16: a successful refine of job id i replaces the entry of id i in place:
\* the line at the position where the fast pass appended id i gets the
\* refined text and the status Refined, and the number and order of the
\* lines of the history and every other line are unchanged.
C16_RefineReplacesInPlace ==
    [][Len(update_log') > Len(update_log) =>
          LET u       == update_log'[Len(update_log')]
              refined == strip(upper(WhisperText(tr_refine.job.chunk.a)))
          IN  /\ u.id \in DOMAIN entry_pos
              /\ u.index = entry_pos[u.id]
              /\ Len(ui_history') = Len(ui_history)
              /\ \A p \in 1..Len(ui_history) :
                    IF p = entry_pos[u.id] + 1
                    THEN /\ ui_history'[p][6] = "Refined"
                         /\ SubSeq(ui_history'[p], 9, Len(ui_history'[p])) = refined
                    ELSE ui_history'[p] = ui_history[p]]_vars

C18_SnapshotHoldsEveryEntry ==
    \A s \in 1..Len(save_log) :
        LET snap == save_log[s] IN
        /\ \A k \in 1..Len(snap.events) :
              snap.events[k].status = "Streaming" =>
                  Cardinality({j \in 1..Len(snap.entries) :
                                  snap.entries[j].id = snap.events[k].id}) = 1
        /\ \A i \in 1..Len(snap.entries) : \A j \in (i + 1)..Len(snap.entries) :
              snap.entries[i].id < snap.entries[j].id

\* C19: the terminal snapshot is written after the workers have stopped
\* mutating the session: once stop() has written it, no entry is appended
\* or updated, so the snapshot equals the entry list in memory.
C19_TerminalSnapshotIsFinal ==
    lifecycle = "stopped" =>
        /\ save_log # <<>>
        /\ save_log[Len(save_log)].entries = session_transcripts
        /\ session_file = save_session(session_transcripts, session_file.stamp)

\* C20: residual text of non-trivial length that the sentence buffer holds
\* when the pipeline stops is appended as a final Streaming entry before
\* the terminal snapshot is written, and so is in that snapshot.
C20_ResidualBufferFlushed ==
    \A s \in 1..Len(save_log) :
        is_substantial(save_log[s].buffer) =>
            \E j \in 1..Len(save_log[s].entries) :
                /\ save_log[s].entries[j].status = "Streaming"
                /\ save_log[s].entries[j].text = save_log[s].buffer

(***************************************************************************)
(* Properties of the shutdown of main.py.                                  *)
(***************************************************************************)
\* C21: no queued item is discarded by shutdown: a worker that has left its
\* loop has processed every chunk, or every refine job, of its queue.
C21_WorkersDrainBeforeExit ==
    /\ tr_stream.pc = "done" =>
          \A i \in 1..Len(tr_audio_queue) : tr_audio_queue[i] = EndOfStream
    /\ tr_refine.pc = "done" =>
          \A i \in 1..Len(tr_refine_queue) : tr_refine_queue[i].none

\* C22: once the running flag is false no chunk is cut and nothing is put on
\* the queue from capture to the fast pass: the chunks ever enqueued stay
\* the ones enqueued when the flag was cleared.
C22_NoEnqueueAfterStop ==
    [][~is_running =>
          /\ captured' = captured
          /\ Len(audio_queue') <= Len(audio_queue)]_vars

\* C23: after stop is called the controller eventually reaches Stopped (the
\* final transcript saved and the session finished), also when a worker is
\* blocked in an engine call that never returns.
C23_StopReachesStopped ==
    (main_pc \in {"stop", "join"}) ~> (main_pc = "finished")

\* C24: the lifecycle only moves forward, Idle, Running, Stopping, Stopped:
\* a controller that has been stopped is not running again, and the running
\* flag is raised only from Idle.
C24_LifecycleOnlyForward ==
    [][/\ lw_lifecycle = "stopped" => lw_lifecycle' = "stopped"
       /\ (~lw_is_running /\ lw_is_running') => lw_lifecycle = "idle"]_vars

\* the threads of one role that have not ended
alive(threads) == {t \in 1..Len(threads) : threads[t] # "done"}

\* C25: after any sequence of start and stop calls at most one thread of
\* each role (capture, transcription) is alive.
C25_OneWorkerPerRole ==
    /\ Cardinality(alive(lw_audio)) <= 1
    /\ Cardinality(alive([t \in 1..Len(lw_trans) |-> lw_trans[t].pc])) <= 1

\* C26: when the audio device cannot be opened (or the retries of a failing
\* read are exhausted) capture stops and the controller moves to Stopping:
\* a capture thread that has ended is never found with the session running.
C26_CaptureFailureStopsSession ==
    pc_audio = "done" => (~is_running /\ lifecycle # "running")

\* C27: a snapshot write that fails leaves the previous snapshot on storage
\* as it was: a session file that exists only ever changes to the complete
\* snapshot of the entries.
C27_FailedWriteKeepsSnapshot ==
    [][(session_path.exists /\ session_path' # session_path) =>
          session_path' = [exists |-> TRUE, content |-> write_lines(ui_history)]]_vars

\* the loop of main_ui is left on a request of the user: 'q', or Ctrl-C
stop_requested ==
    \/ main_pc' = "join"
    \/ ui_history' = add_to_history(ui_history, TxtInterrupted, "System")

\* C28: a persistence failure does not end the session: the pipeline stays
\* running, and leaves the main loop only on a stop request.
C28_SaveFailureKeepsRunning ==
    [][(main_pc = "loop" /\ main_pc' # "loop") => stop_requested]_vars

\* C29: the entry list serialises its mutations: two threads are never at
\* the same time inside add_to_history or update_history_line.
C29_OneThreadInsideHistory ==
    Cardinality({t \in HistoryThreads : ui_inside[t] # Outside}) <= 1

\* C30: the rolling buffer of capture is written by the capture thread
\* only, also while the engine is stopped.
C30_BufferHasOneWriter ==
    Cardinality(lw_buffer_writers) <= 1

\* C31: audio is lost at the overflow of the queue only: while the pipeline
\* is running, a chunk accepted into the queue leaves it only when the
\* transcription thread gets it.
C31_QueuedChunksOnlyPopped ==
    [][(lw_is_running /\ lw_is_running') =>
          \/ Len(lw_audio_queue') >= Len(lw_audio_queue)
          \/ /\ lw_audio_queue' = Tail(lw_audio_queue)
             /\ lw_popped' = Append(lw_popped, Head(lw_audio_queue))]_vars

\* C32: every chunk put on the queue from capture to the fast pass has
\* exactly chunk_samples samples, whatever the source and also for the last
\* data before the end of the stream.
C32_ChunksHaveFullLength ==
    fn_call.op \in Chunkers =>
        \A i \in 1..Len(fn_call.queue) : fn_call.queue[i] = ChunkSamples

\* C33: within each stage the items are processed in the order of their
\* arrival: the fast pass transcribes the chunks in the order they were cut,
\* and the refine pass handles the jobs in the order the fast pass put them,
\* so the ids of the jobs it takes never decrease.
C33_StagesAreFifo ==
    /\ \A i, j \in 1..Len(fast_log) :
          i < j => fast_log[i].chunk.n < fast_log[j].chunk.n
    /\ Len(refine_log) <= Len(jobs_put)
    /\ \A i \in 1..Len(refine_log) : refine_log[i].job = jobs_put[i]
    /\ \A i, j \in 1..Len(refine_log) :
          i < j => refine_log[i].job.id <= refine_log[j].job.id

\* two chunks have been transcribed and the jobs of both refined
C33_Witness ==
    /\ Len(fast_log) = 2
    /\ Len(refine_log) = 2
    /\ refine_log[1].job.audio # refine_log[2].job.audio

\* C34: save_transcript saves the complete transcript: every non-empty
\* transcription produced by audio_processor since the start is in the
\* saved file, in the order produced, however many chunks were processed.
C34_SavedTranscriptIsComplete ==
    (/\ fn_call.op = "audio_processor"
     /\ fn_call.done
     /\ fn_call.saved.written)
        => fn_call.saved.lines = fn_call.produced

\* a stop has been requested, or a worker was ended by an exception
stopped_or_raised ==
    \/ ~tr_is_running
    \/ main_pc # "loop"
    \/ tr_stream.pc = "raised"
    \/ tr_refine.pc = "raised"

\* the chunks and the jobs that are not the end marker
real_chunks(q) == SelectSeq(q, LAMBDA c : c # EndOfStream)
real_jobs(q) == SelectSeq(q, LAMBDA j : ~j.none)

\* without a stop request the fast pass has left its loop only with no
\* chunk queued, and the refine pass only after the fast pass and with no
\* job queued
marker_behind_items ==
    tr_is_running =>
        /\ tr_stream.pc = "done" =>
              (tr_audio = "done" /\ real_chunks(tr_audio_queue) = <<>>)
        /\ tr_refine.pc = "done" =>
              (tr_stream.pc = "done" /\ real_jobs(tr_refine_queue) = <<>>)

\* once the source has reached its end the three workers have ended with
\* nothing left on the queues, unless a stop was requested or a call raised
end_of_stream_terminates ==
    (tr_audio = "done") ~>
        \/ stopped_or_raised
        \/ /\ tr_stream.pc = "done"
           /\ tr_refine.pc = "done"
           /\ tr_audio_queue = <<>>
           /\ tr_refine_queue = <<>>

\* C35: when the source reaches its end, no stop is requested and every
\* engine call returns, the end marker travels behind all real items (the
\* fast pass processes every queued chunk before it forwards the marker, the
\* refine pass every queued job before it exits) and all three workers
\* terminate.
C35_MarkerEndsWorkers ==
    []marker_behind_items /\ end_of_stream_terminates

\* all three workers have ended through the marker while the session is
\* running, after two entries were refined
C35_Witness ==
    /\ tr_is_running
    /\ main_pc = "loop"
    /\ tr_audio = "done"
    /\ tr_stream.pc = "done"
    /\ tr_refine.pc = "done"
    /\ Len(update_log) >= 2

\* C36: the fast-pass worker takes a chunk from the capture queue only when
\* the fast engine is loaded, and the arrival of a chunk before the loading
\* has finished (or after it failed) does not end the worker.
C36_ChunkTakenOnlyWhenLoaded ==
    /\ [][Len(te_audio_queue') < Len(te_audio_queue)
              => te_streaming_pipeline = "loaded"]_vars
    /\ [](te_stream.error # "AttributeError")

\* C37: after every call of _extract_complete_sentences the sentence buffer
\* holds none of the characters '.', '!' and '?': the buffer of every state,
\* and the buffer every accepted feed leaves, is free of terminal marks.
C37_BufferHasNoMark ==
    /\ ~has_mark(sentence_buffer)
    /\ \A i \in 1..Len(seg_log) :
          seg_log[i].accepted => ~has_mark(seg_log[i].after)

\* C37 witness: a feed whose text holds all three marks, '!' before '.'
\* before '?', was cut at the '.' and then at the '?', and left the
\* unfinished tail.
C37_Witness ==
    \E i \in 1..Len(seg_log) :
        /\ seg_log[i].raw = TxtMixed
        /\ seg_log[i].accepted
        /\ Len(seg_log[i].cuts) = 2
        /\ seg_log[i].after = <<"m", "a", "y", "b", "e">>
        /\ sentence_buffer = seg_log[Len(seg_log)].after

\* C38: a finished call of two_pass_transcribe returned the refining pass's
\* text whenever the base model gave non-empty text, returned the streaming
\* pass's text when only the streaming pass gave text, and returned the
\* empty string exactly when both passes gave empty text.
C38_TwoPassResult ==
    (fn_call.op = "two_pass_transcribe" /\ fn_call.pc \in {"returned", "raised"}) =>
        /\ fn_call.base_output # "" =>
              (fn_call.pc = "returned" /\ fn_call.result = fn_call.base_output)
        /\ (fn_call.base_output = "" /\ fn_call.tiny_output # "") =>
              (fn_call.pc = "returned" /\ fn_call.result = fn_call.tiny_output)
        /\ (fn_call.pc = "returned" /\ fn_call.result = "")
              <=> (fn_call.base_output = "" /\ fn_call.tiny_output = "")

====
